---- MODULE Spec2Model ----
(***************************************************************************)
(* ESP8266 "Open Billboard": the markup text renderer, the animation       *)
(* clock, the submit/upload handlers and the hex parser of                 *)
(* openbillboard.ino, together with the older single-region renderer.      *)
(*                                                                         *)
(* A String is a sequence of one-character strings; indices into a String  *)
(* are 0-based as in the source, so character k of s is s[k + 1].          *)
(***************************************************************************)
EXTENDS Integers, Sequences, FiniteSets, TLC

VARIABLES
    gMode, gCurrentText, gTitleText, gDualColorMode, gLargeTitleMode,
    gBitmap, gLastMessage,
    gUploadActive, gUploadBytes,
    gLastAnimUpdate, gScrollOffset, gBlinkState,
    now, upload, served, display, pc, last,
    msg, region, variant, pass,
    hexIn, hexOut

storeVars  == <<gMode, gCurrentText, gTitleText, gDualColorMode, gLargeTitleMode,
                gBitmap, gLastMessage>>
uploadVars == <<gUploadActive, gUploadBytes>>
animVars   == <<gLastAnimUpdate, gScrollOffset, gBlinkState>>
envVars    == <<now, upload, served, display, pc, last>>
renderVars == <<msg, region, variant, pass>>
hexVars    == <<hexIn, hexOut>>
vars == <<storeVars, uploadVars, animVars, envVars, renderVars, hexVars>>

(***************************************************************************)
(* Program constants.                                                      *)
(***************************************************************************)
SCREEN_WIDTH  == 128
SCREEN_HEIGHT == 64
YELLOW_HEIGHT == 16
BITMAP_SIZE   == 1024
SCROLL_STEP   == 2
SCROLL_GAP    == 100
ANIM_PERIOD   == 200
MODE_TEXT     == 0
MODE_BITMAP   == 1

(***************************************************************************)
(* Machine integers.                                                       *)
(***************************************************************************)
Min(a, b) == IF a < b THEN a ELSE b
Max(a, b) == IF a > b THEN a ELSE b

\* Conversion of an int to int16_t (cursorX, cursorY, drawX).
Int16(x) == ((x + 32768) % 65536) - 32768

\* Conversion of an int to the 32-bit unsigned size_t / unsigned int.  A
\* negative int becomes a value of at least 2^31, which is above every String
\* length and index; the largest integer TLC represents stands for it.
ToUnsigned(x) == IF x < 0 THEN 2147483647 ELSE x

(***************************************************************************)
(* The Arduino String operations the program calls.                        *)
(***************************************************************************)
UpperCase == <<"A", "B", "C", "D", "E", "F", "G", "H", "I", "J", "K", "L", "M",
               "N", "O", "P", "Q", "R", "S", "T", "U", "V", "W", "X", "Y", "Z">>
LowerCase == <<"a", "b", "c", "d", "e", "f", "g", "h", "i", "j", "k", "l", "m",
               "n", "o", "p", "q", "r", "s", "t", "u", "v", "w", "x", "y", "z">>
Digits    == <<"0", "1", "2", "3", "4", "5", "6", "7", "8", "9">>
WhiteSpace == {" ", "\t", "\n", "\r", "\f"}

\* Position (1-based) of c in the sequence s, 0 when absent.
Pos(s, c) == IF \E k \in 1..Len(s) : s[k] = c
             THEN CHOOSE k \in 1..Len(s) : s[k] = c /\ \A j \in 1..(k - 1) : s[j] # c
             ELSE 0

\* String::indexOf(char, fromIndex): first index >= from holding c, else -1.
IndexOfChar(s, c, from) ==
    IF \E k \in from..(Len(s) - 1) : s[k + 1] = c
    THEN CHOOSE k \in from..(Len(s) - 1) :
             s[k + 1] = c /\ \A j \in from..(k - 1) : s[j + 1] # c
    ELSE -1

\* String::indexOf(String): first index where pat occurs, else -1.
IndexOf(s, pat) ==
    LET Hit(k) == SubSeq(s, k + 1, k + Len(pat)) = pat
        cand   == 0..(Len(s) - Len(pat))
    IN  IF \E k \in cand : Hit(k)
        THEN CHOOSE k \in cand : Hit(k) /\ \A j \in 0..(k - 1) : ~Hit(j)
        ELSE -1

\* String::substring(unsigned left, unsigned right): the arguments are
\* converted to unsigned, swapped when left > right, and right is clamped to
\* the length.
Substring(s, left, right) ==
    LET l0 == ToUnsigned(left)
        r0 == ToUnsigned(right)
        l  == Min(l0, r0)
        r  == Max(l0, r0)
    IN  IF l >= Len(s) THEN <<>> ELSE SubSeq(s, l + 1, Min(r, Len(s)))

\* String::toLowerCase().
ToLowerChar(c) == IF Pos(UpperCase, c) > 0 THEN LowerCase[Pos(UpperCase, c)] ELSE c
ToLowerCase(s) == [k \in 1..Len(s) |-> ToLowerChar(s[k])]

\* String::trim(): leading and trailing white space removed.
Trim(s) ==
    LET keep == {k \in 1..Len(s) : s[k] \notin WhiteSpace}
    IN  IF keep = {} THEN <<>>
        ELSE SubSeq(s, CHOOSE k \in keep : \A j \in keep : k <= j,
                       CHOOSE k \in keep : \A j \in keep : k >= j)

\* String::replace(find, ""): every occurrence removed, scanning left to right.
RECURSIVE Remove(_, _)
Remove(s, pat) ==
    LET k == IndexOf(s, pat)
    IN  IF k < 0 THEN s
        ELSE SubSeq(s, 1, k) \o Remove(SubSeq(s, k + Len(pat) + 1, Len(s)), pat)

\* n copies of the string s, one after the other.
RECURSIVE Rep(_, _)
Rep(s, n) == IF n <= 0 THEN <<>>
             ELSE IF n = 1 THEN s
             ELSE Rep(s, n \div 2) \o Rep(s, n - (n \div 2))

(***************************************************************************)
(* Bounds of the model.                                                    *)
(***************************************************************************)
\* Longest string of the exhaustive set of source strings.
MaxLen == 3
\* Length of the runs of one character in the long source strings.
MaxRun == 23
\* Iterations after which a render pass still running is taken not to end.
RenderFuel == 2048
\* Last instant (ms) at which the device is observed.
MaxTime == 402
\* Number of HTTP requests the device is sent.
MaxRequests == 2

(***************************************************************************)
(* Markup strings.                                                         *)
(***************************************************************************)
TagScroll      == <<"<", "s", "c", "r", "o", "l", "l", ">">>
TagScrollEnd   == <<"<", "/", "s", "c", "r", "o", "l", "l", ">">>
TagBlink       == <<"<", "b", "l", "i", "n", "k", ">">>
TagBlinkEnd    == <<"<", "/", "b", "l", "i", "n", "k", ">">>

(***************************************************************************)
(* The markup text renderer.  A render pass is the while loop of           *)
(* renderTextAtPosition; its locals are the fields of a pass record:       *)
(*   i, textSize, boldMode, italicMode, invertedMode, scrollMode,          *)
(*   blinkMode, cursorX, cursorY   the locals of the source;               *)
(*   drawn    the display.write calls made so far, in order;               *)
(*   status   "run" while the loop is executing, "end" once i reached the  *)
(*            length, "clip" after the break, "hung" once the loop has     *)
(*            come back to a configuration it was in before;               *)
(*   mark     the configuration at the last backward jump of i.            *)
(* display.width() is the width given to the constructor, SCREEN_WIDTH, so *)
(* the early return on display.width() == 0 is never taken.                *)
(***************************************************************************)
Region(x, y, w, h) == [startX |-> x, startY |-> y, maxW |-> w, maxH |-> h]
FullRegion == Region(0, 0, SCREEN_WIDTH, SCREEN_HEIGHT)
BodyRegion == Region(0, YELLOW_HEIGHT, SCREEN_WIDTH, SCREEN_HEIGHT - YELLOW_HEIGHT)

Phase(scroll, blink) == [scrollOffset |-> scroll, blinkOn |-> blink]

PassInit(R) ==
    [i |-> 0, textSize |-> 1, boldMode |-> FALSE, italicMode |-> FALSE,
     invertedMode |-> FALSE, scrollMode |-> FALSE, blinkMode |-> FALSE,
     cursorX |-> R.startX, cursorY |-> R.startY,
     drawn |-> <<>>, status |-> "run", mark |-> <<>>]

\* The configuration the rest of the loop depends on when i is 0.
Config(st) == <<st.textSize, st.boldMode, st.italicMode, st.invertedMode,
                st.scrollMode, st.blinkMode, st.cursorX, st.cursorY>>

\* One display.write(ch), with (x, y) the position given to display.setCursor
\* just before it and the text size and colours set.
Glyph(ch, x, y, size, inv) == [ch |-> ch, x |-> x, y |-> y, size |-> size, inv |-> inv]

\* The chain of lines 226-242 without the alias "n" of line 234.
ApplyTagNoAlias(tag, st, startX) ==
    CASE tag = <<"s", "1">> -> [st EXCEPT !.textSize = 1]
      [] tag = <<"s", "2">> -> [st EXCEPT !.textSize = 2]
      [] tag = <<"s", "3">> -> [st EXCEPT !.textSize = 3]
      [] tag = <<"b">> -> [st EXCEPT !.boldMode = TRUE]
      [] tag = <<"/", "b">> -> [st EXCEPT !.boldMode = FALSE]
      [] tag = <<"i">> -> [st EXCEPT !.italicMode = TRUE]
      [] tag = <<"/", "i">> -> [st EXCEPT !.italicMode = FALSE]
      [] tag = <<"i", "n", "v">> -> [st EXCEPT !.invertedMode = TRUE]
      [] tag = <<"/", "i", "n", "v">> -> [st EXCEPT !.invertedMode = FALSE]
      [] tag = <<"s", "c", "r", "o", "l", "l">> -> [st EXCEPT !.scrollMode = TRUE]
      [] tag = <<"/", "s", "c", "r", "o", "l", "l">> -> [st EXCEPT !.scrollMode = FALSE]
      [] tag = <<"b", "l", "i", "n", "k">> -> [st EXCEPT !.blinkMode = TRUE]
      [] tag = <<"/", "b", "l", "i", "n", "k">> -> [st EXCEPT !.blinkMode = FALSE]
      [] tag = <<"b", "r">> ->
            [st EXCEPT !.cursorX = startX,
                       !.cursorY = Int16(st.cursorY + 8 * st.textSize)]
      [] OTHER -> st

\* The if / else-if chain over the tag body (lines 226-242).
ApplyTag(tag, st, startX) ==
    CASE tag = <<"s", "1">> -> [st EXCEPT !.textSize = 1]
      [] tag = <<"s", "2">> -> [st EXCEPT !.textSize = 2]
      [] tag = <<"s", "3">> -> [st EXCEPT !.textSize = 3]
      [] tag = <<"b">> -> [st EXCEPT !.boldMode = TRUE]
      [] tag = <<"/", "b">> -> [st EXCEPT !.boldMode = FALSE]
      [] tag = <<"i">> -> [st EXCEPT !.italicMode = TRUE]
      [] tag = <<"/", "i">> -> [st EXCEPT !.italicMode = FALSE]
      [] tag = <<"i", "n", "v">> -> [st EXCEPT !.invertedMode = TRUE]
      [] tag = <<"n">> \/ tag = <<"/", "i", "n", "v">> -> [st EXCEPT !.invertedMode = FALSE]
      [] tag = <<"s", "c", "r", "o", "l", "l">> -> [st EXCEPT !.scrollMode = TRUE]
      [] tag = <<"/", "s", "c", "r", "o", "l", "l">> -> [st EXCEPT !.scrollMode = FALSE]
      [] tag = <<"b", "l", "i", "n", "k">> -> [st EXCEPT !.blinkMode = TRUE]
      [] tag = <<"/", "b", "l", "i", "n", "k">> -> [st EXCEPT !.blinkMode = FALSE]
      [] tag = <<"b", "r">> ->
            [st EXCEPT !.cursorX = startX,
                       !.cursorY = Int16(st.cursorY + 8 * st.textSize)]
      [] OTHER -> st

\* The older renderer's chain (part_000 lines 200-222): no scroll, no blink.
ApplyTagLegacy(tag, st) ==
    CASE tag = <<"s", "1">> -> [st EXCEPT !.textSize = 1]
      [] tag = <<"s", "2">> -> [st EXCEPT !.textSize = 2]
      [] tag = <<"s", "3">> -> [st EXCEPT !.textSize = 3]
      [] tag = <<"b">> -> [st EXCEPT !.boldMode = TRUE]
      [] tag = <<"/", "b">> -> [st EXCEPT !.boldMode = FALSE]
      [] tag = <<"i">> -> [st EXCEPT !.italicMode = TRUE]
      [] tag = <<"/", "i">> -> [st EXCEPT !.italicMode = FALSE]
      [] tag = <<"i", "n", "v">> -> [st EXCEPT !.invertedMode = TRUE]
      [] tag = <<"n">> \/ tag = <<"/", "i", "n", "v">> -> [st EXCEPT !.invertedMode = FALSE]
      [] tag = <<"b", "r">> ->
            [st EXCEPT !.cursorX = 0,
                       !.cursorY = Int16(st.cursorY + 8 * st.textSize)]
      [] OTHER -> st

\* int closePos = remaining.indexOf('>', i);
ClosePos(m, st) == IndexOfChar(m, ">", st.i)

\* if (closePos > i): closePos is an int and i a size_t, so the comparison is
\* made after converting closePos to unsigned.
ClosePosAfter(closePos, i) == ToUnsigned(closePos) > i

\* The branch of the loop body the current character takes.
AtTag(m, st) ==
    /\ st.status = "run" /\ st.i < Len(m)
    /\ m[st.i + 1] = "<"
    /\ ClosePosAfter(ClosePos(m, st), st.i)
AtNewline(m, st) ==
    /\ st.status = "run" /\ st.i < Len(m)
    /\ ~AtTag(m, st)
    /\ m[st.i + 1] = "\n"
AtReturn(m, st) ==
    /\ st.status = "run" /\ st.i < Len(m)
    /\ ~AtTag(m, st)
    /\ m[st.i + 1] = "\r"
AtChar(m, st) ==
    /\ st.status = "run" /\ st.i < Len(m)
    /\ ~AtTag(m, st)
    /\ m[st.i + 1] \notin {"\n", "\r"}
AtEnd(m, st) == st.status = "run" /\ st.i >= Len(m)

\* Lines 219-246: the tag is taken, applied and skipped.  i = closePos + 1;
\* when that moves i backwards the configuration is compared with the one at
\* the previous backward jump.
TagStep(m, R, st, legacy) ==
    LET closePos == ClosePos(m, st)
        tag == Trim(ToLowerCase(Substring(m, st.i + 1, closePos)))
        t   == IF legacy THEN ApplyTagLegacy(tag, st) ELSE ApplyTag(tag, st, R.startX)
        nxt == ToUnsigned(closePos + 1)
    IN  IF nxt > st.i THEN [t EXCEPT !.i = nxt]
        ELSE IF t.mark = <<Config(t)>> THEN [t EXCEPT !.i = nxt, !.status = "hung"]
        ELSE [t EXCEPT !.i = nxt, !.mark = <<Config(t)>>]

\* Lines 249-254.
NewlineStep(R, st) ==
    [st EXCEPT !.cursorX = R.startX,
               !.cursorY = Int16(st.cursorY + 8 * st.textSize),
               !.i = st.i + 1]

\* Lines 256-259.
ReturnStep(st) == [st EXCEPT !.i = st.i + 1]

\* The loop without the test of lines 261-264.
BlinkSkipsNever(st, ph) == FALSE

\* Lines 261-264.
BlinkSkips(st, ph) == st.blinkMode /\ ~ph.blinkOn

\* Lines 278-280 without the forward wrap of lines 281-283.
DrawXNoWrap(R, st, ph) ==
    IF st.scrollMode THEN Int16(st.cursorX - ph.scrollOffset) ELSE st.cursorX

\* Lines 278-284: the X at which the glyph is drawn.
DrawX(R, st, ph) ==
    LET charWidth == 6 * st.textSize
        shifted   == Int16(st.cursorX - ph.scrollOffset)
    IN  IF st.scrollMode
        THEN IF shifted < -charWidth THEN Int16(shifted + R.maxW + SCROLL_GAP) ELSE shifted
        ELSE st.cursorX

\* Lines 295-311 with the bold copy written in italic mode too.
GlyphWritesBoldItalic(ch, drawX, cursorY, R, st) ==
    LET charWidth == 6 * st.textSize
        italic == [k \in 1..(st.textSize + 1) |->
                      Glyph(ch, drawX + (k - 1), cursorY + (st.textSize - (k - 1)) * 2,
                            st.textSize, st.invertedMode)]
        plain  == <<Glyph(ch, drawX, cursorY, st.textSize, st.invertedMode)>>
        bold   == <<Glyph(ch, drawX + 1, cursorY, st.textSize, st.invertedMode)>>
    IN  IF drawX >= -charWidth /\ drawX < R.maxW
        THEN (IF st.italicMode THEN italic ELSE plain)
             \o (IF st.boldMode THEN bold ELSE <<>>)
        ELSE <<>>

\* Lines 295-311: the display.write calls for one character.
GlyphWrites(ch, drawX, cursorY, R, st) ==
    LET charWidth == 6 * st.textSize
        italic == [k \in 1..(st.textSize + 1) |->
                      Glyph(ch, drawX + (k - 1), cursorY + (st.textSize - (k - 1)) * 2,
                            st.textSize, st.invertedMode)]
        plain  == <<Glyph(ch, drawX, cursorY, st.textSize, st.invertedMode)>>
        bold   == <<Glyph(ch, drawX + 1, cursorY, st.textSize, st.invertedMode)>>
    IN  IF drawX >= -charWidth /\ drawX < R.maxW
        THEN (IF st.italicMode THEN italic ELSE plain)
             \o (IF st.boldMode /\ ~st.italicMode THEN bold ELSE <<>>)
        ELSE <<>>

\* Lines 286-289: the wrap to the next line.
Wraps(R, st) == st.cursorX + 6 * st.textSize > R.startX + R.maxW

\* Lines 291-293 with the test made on the cursor alone.
ClipsBelowCursor(R, st, cursorY) == cursorY > R.startY + R.maxH

\* Lines 291-293: the line of the character would pass the bottom edge.
Clips(R, st, cursorY) == cursorY + 8 * st.textSize > R.startY + R.maxH

\* Lines 266-314: one character laid out (or the break on vertical clipping).
CharStep(m, R, st, ph) ==
    LET ch == m[st.i + 1]
        charWidth  == 6 * st.textSize
        lineHeight == 8 * st.textSize
        drawX == DrawX(R, st, ph)
        cx == IF Wraps(R, st) THEN R.startX ELSE st.cursorX
        cy == IF Wraps(R, st) THEN Int16(st.cursorY + lineHeight) ELSE st.cursorY
    IN  IF BlinkSkips(st, ph) THEN [st EXCEPT !.i = st.i + 1]
        ELSE IF Clips(R, st, cy)
        THEN [st EXCEPT !.cursorX = cx, !.cursorY = cy, !.status = "clip"]
        ELSE [st EXCEPT !.cursorX = Int16(cx + charWidth), !.cursorY = cy,
                        !.i = st.i + 1,
                        !.drawn = st.drawn \o GlyphWrites(ch, drawX, cy, R, st)]

\* part_000 lines 244-301: the older renderer draws at the cursor itself.
CharStepLegacy(m, st) ==
    LET ch == m[st.i + 1]
        charWidth  == 6 * st.textSize
        lineHeight == 8 * st.textSize
        wraps == st.cursorX + charWidth > SCREEN_WIDTH
        cx == IF wraps THEN 0 ELSE st.cursorX
        cy == IF wraps THEN Int16(st.cursorY + lineHeight) ELSE st.cursorY
        italic == [k \in 1..(st.textSize + 1) |->
                      Glyph(ch, cx + (k - 1), cy + (st.textSize - (k - 1)) * 2,
                            st.textSize, st.invertedMode)]
        plain  == <<Glyph(ch, cx, cy, st.textSize, st.invertedMode)>>
        bold   == <<Glyph(ch, cx + 1, cy, st.textSize, st.invertedMode)>>
    IN  IF cy + lineHeight > SCREEN_HEIGHT
        THEN [st EXCEPT !.cursorX = cx, !.cursorY = cy, !.status = "clip"]
        ELSE [st EXCEPT !.cursorX = Int16(cx + charWidth), !.cursorY = cy,
                        !.i = st.i + 1,
                        !.drawn = st.drawn
                                  \o (IF st.italicMode THEN italic ELSE plain)
                                  \o (IF st.boldMode /\ ~st.italicMode THEN bold ELSE <<>>)]

\* One iteration of while (i < remaining.length()) of renderTextAtPosition,
\* lines 218-315.
LoopBody(m, R, st, ph) ==
    IF st.status # "run" THEN st
    ELSE IF st.i >= Len(m) THEN [st EXCEPT !.status = "end"]
    ELSE IF m[st.i + 1] = "<" /\ ClosePosAfter(ClosePos(m, st), st.i)
         THEN TagStep(m, R, st, FALSE)
    ELSE IF m[st.i + 1] = "\n" THEN NewlineStep(R, st)
    ELSE IF m[st.i + 1] = "\r" THEN ReturnStep(st)
    ELSE CharStep(m, R, st, ph)

\* One iteration of the loop of the older renderTextToOLED (part_000 lines
\* 189-302).
LoopBodyLegacy(m, st) ==
    IF st.status # "run" THEN st
    ELSE IF st.i >= Len(m) THEN [st EXCEPT !.status = "end"]
    ELSE IF m[st.i + 1] = "<" /\ ClosePosAfter(ClosePos(m, st), st.i)
         THEN TagStep(m, FullRegion, st, TRUE)
    ELSE IF m[st.i + 1] = "\n" THEN NewlineStep(FullRegion, st)
    ELSE IF m[st.i + 1] = "\r" THEN ReturnStep(st)
    ELSE CharStepLegacy(m, st)

(***************************************************************************)
(* Source strings given to the renderer.                                   *)
(***************************************************************************)
MsgHello == <<"H", "e", "l", "l", "o", " ", "f", "r", "o", "m", " ", "b", "i", "l", "l", "b", "o", "a", "r", "d", "!">>
MsgEmpty == <<"(", "e", "m", "p", "t", "y", ")">>
MsgBoldHi == <<"<", "s", "2", ">", "<", "b", ">", "H", "i", "<", "/", "b", ">">>
MsgBlinkAB == <<"<", "b", "l", "i", "n", "k", ">", "A", "<", "/", "b", "l", "i", "n", "k", ">", "B">>
MsgScrollAB == <<"<", "s", "c", "r", "o", "l", "l", ">", "A", "B">>
MsgScrollBlink == <<"<", "s", "c", "r", "o", "l", "l", ">", "<", "b", "l", "i", "n", "k", ">", "A">>
MsgUpperScroll == <<"<", "S", "C", "R", "O", "L", "L", ">", "A">>
MsgSpacedBlink == <<"<", " ", "b", "l", "i", "n", "k", " ", ">", "A">>
MsgItalic == <<"<", "s", "2", ">", "<", "i", ">", "A", "<", "/", "i", ">", "B">>
MsgBoldItalic == <<"<", "b", ">", "<", "i", ">", "A">>
MsgInverted == <<"<", "i", "n", "v", ">", "A", "<", "n", ">", "B">>
MsgBreak == <<"A", "<", "b", "r", ">", "B", "\r", "\n", "C">>
MsgUnknownTag == <<"<", "x", ">", "A">>
MsgHeart == <<"H", "i", " ", "<", "3">>
MsgBlinkOpen == <<"<", "b", "l", "i", "n", "k", ">", "A", "<", "/", "b", "l", "i", "n", "k", ">", "<">>

\* A line of identical characters, long enough to wrap at the text size set
\* by the tag in front of it.
MsgLongLine  == Rep(<<"A">>, MaxRun)
MsgLongLine3 == <<"<", "s", "3", ">">> \o Rep(<<"A">>, MaxRun)
MsgManyLines == Rep(<<"\n">>, 8) \o <<"A">>
MsgBlinkBreak == <<"<", "b", "l", "i", "n", "k", ">", "A", "\n", "B", "<", "/", "b", "l", "i", "n", "k", ">", "C">>
MsgScrollLong == TagScroll \o Rep(<<"A">>, MaxRun)
MsgTagTable == <<"<", "s", "3", ">", "<", "s", "1", ">", "<", "b", ">", "<", "i", ">",
                  "<", "i", "n", "v", ">", "<", "s", "c", "r", "o", "l", "l", ">", "<",
                  "b", "l", "i", "n", "k", ">", "<", "/", "B", ">", "<", "/", "I", ">",
                  "<", "/", "I", "N", "V", ">", "<", "/", "S", "c", "r", "o", "l", "l",
                  ">", "<", " ", "/", "b", "l", "i", "n", "k", " ", ">", "<", "n", ">",
                  "<", "x", ">", "A">>

CuratedMsgs ==
    {MsgHello, MsgEmpty, MsgBoldHi, MsgBlinkAB, MsgScrollAB, MsgScrollBlink,
     MsgUpperScroll, MsgSpacedBlink, MsgItalic, MsgBoldItalic, MsgInverted,
     MsgBreak, MsgUnknownTag, MsgHeart, MsgBlinkOpen,
     MsgLongLine, MsgLongLine3, MsgManyLines, MsgBlinkBreak, MsgScrollLong,
     MsgTagTable}

\* Every string of at most MaxLen characters over the markup alphabet.
MarkupAlphabet == {"A", "b", "<", ">", "/"}
StringsUpTo(n) == UNION {[1..k -> MarkupAlphabet] : k \in 0..n}
SmallMsgs == StringsUpTo(MaxLen)

\* The animation phases the clock produces that the passes are run under.
Phases == {Phase(0, FALSE), Phase(2, TRUE), Phase(128, FALSE), Phase(130, TRUE)}

(***************************************************************************)
(* The state before setup(): the initialisers of the globals, lines 35-50. *)
(***************************************************************************)
ZeroBitmap == [k \in 1..BITMAP_SIZE |-> 0]

InitStore ==
    /\ gMode = MODE_TEXT
    /\ gCurrentText = MsgHello
    /\ gTitleText = <<>>
    /\ gDualColorMode = FALSE
    /\ gLargeTitleMode = FALSE
    /\ gBitmap = ZeroBitmap
    /\ gLastMessage = "none"
    /\ gUploadActive = FALSE
    /\ gUploadBytes = 0
    /\ gLastAnimUpdate = 0

InitEnv ==
    /\ now = 0
    /\ upload = [status |-> "none"]
    /\ served = 0
    /\ display = [kind |-> "blank"]
    /\ last = [op |-> "none"]

InitNoPass ==
    /\ msg = <<>>
    /\ region = FullRegion
    /\ variant = "region"
    /\ pass = [PassInit(FullRegion) EXCEPT !.status = "end"]

InitNoHex ==
    /\ hexIn = <<>>
    /\ hexOut = [n |-> 0, buf |-> <<>>]

(***************************************************************************)
(* SpecRender: one render pass, iteration by iteration, over a source      *)
(* string, a region and an animation phase.  variant "region" is           *)
(* renderTextAtPosition, "legacy" the older renderTextToOLED.              *)
(***************************************************************************)
InitRender ==
    /\ InitStore /\ InitEnv /\ InitNoHex
    /\ pc = "render"
    /\ \/ /\ msg \in CuratedMsgs \cup SmallMsgs
          /\ variant = "region"
          /\ region \in {FullRegion, BodyRegion}
          /\ \E ph \in Phases :
                gScrollOffset = ph.scrollOffset /\ gBlinkState = ph.blinkOn
       \/ /\ msg \in CuratedMsgs \cup SmallMsgs
          /\ variant = "legacy"
          /\ region = FullRegion
          /\ gScrollOffset = 0 /\ gBlinkState = FALSE
    /\ pass = PassInit(region)

CurPhase == Phase(gScrollOffset, gBlinkState)

\* The loop body of the variant under execution.
Iterate(st) ==
    IF variant = "legacy" THEN LoopBodyLegacy(msg, st) ELSE LoopBody(msg, region, st, CurPhase)

PassStep(guard) ==
    /\ pc = "render"
    /\ guard
    /\ pass' = Iterate(pass)
    /\ UNCHANGED <<storeVars, uploadVars, animVars, envVars, msg, region, variant, hexVars>>

ScanTag      == PassStep(AtTag(msg, pass))
ScanNewline  == PassStep(AtNewline(msg, pass))
ScanReturn   == PassStep(AtReturn(msg, pass))
SkipBlinked  == PassStep(AtChar(msg, pass) /\ variant = "region" /\ BlinkSkips(pass, CurPhase))
LayoutChar   == PassStep(AtChar(msg, pass) /\ ~(variant = "region" /\ BlinkSkips(pass, CurPhase)))
LoopExit     == PassStep(AtEnd(msg, pass))

NextRender ==
    \/ ScanTag
    \/ ScanNewline
    \/ ScanReturn
    \/ SkipBlinked
    \/ LayoutChar
    \/ LoopExit

SpecRender == InitRender /\ [][NextRender]_vars

(***************************************************************************)
(* parseHexToBitmap (lines 529-556).                                       *)
(***************************************************************************)
HexLower == <<"a", "b", "c", "d", "e", "f">>
HexUpper == <<"A", "B", "C", "D", "E", "F">>

\* Lines 534: the characters kept in cleaned.
IsHexDigit(c) == Pos(Digits, c) > 0 \/ Pos(HexLower, c) > 0 \/ Pos(HexUpper, c) > 0

\* Lines 540-545: the lambda hexVal.
hexVal(ch) ==
    IF Pos(Digits, ch) > 0 THEN Pos(Digits, ch) - 1
    ELSE IF Pos(HexLower, ch) > 0 THEN 10 + (Pos(HexLower, ch) - 1)
    ELSE IF Pos(HexUpper, ch) > 0 THEN 10 + (Pos(HexUpper, ch) - 1)
    ELSE 0

\* Lines 547-550: one iteration of the pair loop; st = [i, outIdx, buf].  The
\* two nibbles are below 16, so (hi << 4) | lo is 16 * hi + lo.
HexPairStep(cleaned, outCap, st) ==
    IF st.i + 1 < Len(cleaned) /\ st.outIdx < outCap
    THEN [i |-> st.i + 2,
          outIdx |-> st.outIdx + 1,
          buf |-> [st.buf EXCEPT ![st.outIdx + 1] =
                      (16 * hexVal(cleaned[st.i + 1]) + hexVal(cleaned[st.i + 2])) % 256]]
    ELSE st

\* The pair loop run for at most n iterations (it stops by itself earlier).
RECURSIVE HexPairLoop(_, _, _, _)
HexPairLoop(cleaned, outCap, st, n) ==
    IF n <= 0 \/ ~(st.i + 1 < Len(cleaned) /\ st.outIdx < outCap) THEN st
    ELSE IF n = 1 THEN HexPairStep(cleaned, outCap, st)
    ELSE HexPairLoop(cleaned, outCap,
                     HexPairLoop(cleaned, outCap, st, n \div 2), n - (n \div 2))

\* The function without the loop of lines 552-554.
ZeroPadNone(buf, outIdx, outCap) == buf

\* Lines 552-554: the bytes from outIdx on are set to zero.
ZeroPad(buf, outIdx, outCap) ==
    [j \in 1..outCap |-> IF j > outIdx THEN 0 ELSE buf[j]]

\* The whole function: the count returned and the buffer left behind.
parseHexToBitmap(hexText, outBuf, outCap) ==
    LET cleaned == SelectSeq(hexText, IsHexDigit)
        done == HexPairLoop(cleaned, outCap,
                            [i |-> 0, outIdx |-> 0, buf |-> outBuf], Len(cleaned))
    IN  [n |-> done.outIdx, buf |-> ZeroPad(done.buf, done.outIdx, outCap)]

(***************************************************************************)
(* The render functions as the handlers call them: the whole loop, then    *)
(* display.display().  A pass still running after RenderFuel iterations is *)
(* one that never ends.                                                    *)
(***************************************************************************)
RECURSIVE RunPass(_, _, _, _, _)
RunPass(m, R, ph, st, n) ==
    IF n <= 0 \/ st.status # "run" THEN st
    ELSE IF n = 1 THEN LoopBody(m, R, st, ph)
    ELSE RunPass(m, R, ph, RunPass(m, R, ph, st, n \div 2), n - (n \div 2))

\* renderTextAtPosition(msg, startX, startY, maxW, maxH), lines 202-316.
renderTextAtPosition(m, R, ph) ==
    LET st == RunPass(m, R, ph, PassInit(R), RenderFuel)
    IN  [returns |-> st.status \in {"end", "clip"}, drawn |-> st.drawn]

\* renderTextToOLED(msg), lines 318-324: what the panel shows afterwards.
renderTextToOLED(m, ph) ==
    LET body == renderTextAtPosition(m, FullRegion, ph)
    IN  [returns |-> body.returns,
         shown |-> [kind |-> "text", glyphs |-> body.drawn]]

\* Lines 167-173 with the size forced down as soon as the line height reaches
\* YELLOW_HEIGHT.
TitleMetricsForcedAtEqual(largeTitle) ==
    LET size0 == IF largeTitle THEN 2 ELSE 1
    IN  IF 8 * size0 >= YELLOW_HEIGHT
        THEN [titleSize |-> 1, titleHeight |-> 8]
        ELSE [titleSize |-> size0, titleHeight |-> 8 * size0]

\* Lines 167-173 with the large size whatever largeTitle is.
TitleMetricsAlwaysLarge(largeTitle) ==
    IF 8 * 2 > YELLOW_HEIGHT
    THEN [titleSize |-> 1, titleHeight |-> 8]
    ELSE [titleSize |-> 2, titleHeight |-> 8 * 2]

\* Lines 167-173: the text size and line height of the title.
TitleMetrics(largeTitle) ==
    LET size0 == IF largeTitle THEN 2 ELSE 1
    IN  IF 8 * size0 > YELLOW_HEIGHT
        THEN [titleSize |-> 1, titleHeight |-> 8]
        ELSE [titleSize |-> size0, titleHeight |-> 8 * size0]

\* Lines 166-192: the title line of the dual-colour layout, as the
\* display.print call made (none when the title is empty or blinked off).
TitlePrint(title, largeTitle, ph) ==
    LET titleSize   == TitleMetrics(largeTitle).titleSize
        titleHeight == TitleMetrics(largeTitle).titleHeight
        cleanTitle  == Remove(Remove(Remove(Remove(title, TagScroll), TagScrollEnd),
                                     TagBlink), TagBlinkEnd)
        scrollTitle == IndexOf(title, TagScroll) >= 0
        xPos        == IF scrollTitle THEN Int16(SCREEN_WIDTH - ph.scrollOffset) ELSE 0
        blinkTitle  == IndexOf(title, TagBlink) >= 0
    IN  IF Len(title) > 0 /\ (~blinkTitle \/ ph.blinkOn)
        THEN <<[text |-> cleanTitle, x |-> xPos,
                y |-> (YELLOW_HEIGHT - titleHeight) \div 2, size |-> titleSize]>>
        ELSE <<>>

\* renderDualColorToOLED(title, body, largeTitle), lines 160-200.
renderDualColorToOLED(title, body, largeTitle, ph) ==
    LET b == IF Len(body) > 0
             THEN renderTextAtPosition(body, BodyRegion, ph)
             ELSE [returns |-> TRUE, drawn |-> <<>>]
    IN  [returns |-> b.returns,
         shown |-> [kind |-> "dual", title |-> TitlePrint(title, largeTitle, ph),
                    glyphs |-> b.drawn]]

\* renderBitmapToOLED(data, len), lines 326-332.
renderBitmapToOLED(data) == [kind |-> "bitmap", data |-> data]

\* The render the text content gets: lines 100-104, 150-154 and 490-496.
RenderContent(title, body, dual, large, ph) ==
    IF dual THEN renderDualColorToOLED(title, body, large, ph)
    ELSE renderTextToOLED(body, ph)

(***************************************************************************)
(* The device.  setup(), then loop(): the HTTP handlers the server calls   *)
(* for a request and updateAnimations().  pc is "boot" before setup(),     *)
(* "loop" between handlers and "hung" once a render call made by a handler *)
(* does not return.  upload is the file part of the request being          *)
(* received (with the bitmap as it was when the request began); last       *)
(* describes the handler that ran last.  The server receives a request     *)
(* completely, file part included, within one call of handleClient(), so   *)
(* updateAnimations() does not run between the chunks of an upload.        *)
(***************************************************************************)
BITMAP_WORD == <<"b", "i", "t", "m", "a", "p">>
ModeArgs == {<<>>, BITMAP_WORD}
\* Other spellings of the mode argument.
ModeSpellings == {<<"T", "e", "x", "t">>, <<"B", "i", "t", "m", "a", "p">>}

TextPlain == <<"H", "i">>
TextOpen  == <<"<", "s", "3", ">", "<", "b", "l", "i", "n", "k", ">", "A", "<">>
TitleScroll == <<"<", "s", "c", "r", "o", "l", "l", ">", "T">>

HexNoDigits == <<"z", "z">>
HexFF00     == <<"f", "f", "0", "0">>

\* The (dualColorMode, largeTitleMode) check boxes of a request.
FlagArgs == {<<FALSE, FALSE>>, <<TRUE, FALSE>>, <<TRUE, TRUE>>}

\* An uploaded file: byte k (0-based) of file f.
FileByte(f, k) == ((k + 7 * f.id) % 255) + 1
File(id, len) == [id |-> id, len |-> len]
\* upload.currentSize of a chunk, before the end of the file cuts it.
ChunkSizes == {600, 2048}

NoUpload == [status |-> "none"]

Init ==
    /\ InitStore /\ InitEnv /\ InitNoPass /\ InitNoHex
    /\ gScrollOffset = 0
    /\ gBlinkState = FALSE
    /\ pc = "boot"

\* setup(), lines 100-104: the first render.
Setup ==
    /\ pc = "boot"
    /\ LET r == RenderContent(gTitleText, gCurrentText, gDualColorMode, gLargeTitleMode,
                              CurPhase)
       IN  /\ pc' = IF r.returns THEN "loop" ELSE "hung"
           /\ display' = IF r.returns THEN r.shown ELSE display
    /\ last' = [op |-> "setup"]
    /\ UNCHANGED <<storeVars, uploadVars, animVars, now, upload, served, renderVars, hexVars>>

\* Time passes between two calls of updateAnimations(), by one of the
\* durations in D.
ElapseBy(D) ==
    /\ pc = "loop"
    /\ upload.status = "none"
    /\ \E d \in D :
          /\ now + d <= MaxTime
          /\ now' = now + d
    /\ UNCHANGED <<storeVars, uploadVars, animVars, upload, served, display, pc, last,
                   renderVars, hexVars>>

Elapse == ElapseBy({ANIM_PERIOD, ANIM_PERIOD + 1})

\* The test of lines 136-147 with the title scanned whatever gDualColorMode is.
NeedsRedrawAnyFlag ==
    /\ gMode = MODE_TEXT
    /\ \/ IndexOf(gTitleText, TagScroll) >= 0 \/ IndexOf(gTitleText, TagBlink) >= 0
       \/ IndexOf(gCurrentText, TagScroll) >= 0 \/ IndexOf(gCurrentText, TagBlink) >= 0

\* The test of lines 136-147 without the condition on gMode of line 136.
NeedsRedrawAnyMode ==
    IF gDualColorMode
    THEN \/ IndexOf(gTitleText, TagScroll) >= 0 \/ IndexOf(gTitleText, TagBlink) >= 0
         \/ IndexOf(gCurrentText, TagScroll) >= 0 \/ IndexOf(gCurrentText, TagBlink) >= 0
    ELSE \/ IndexOf(gCurrentText, TagScroll) >= 0 \/ IndexOf(gCurrentText, TagBlink) >= 0

\* Lines 136-147: whether the tick redraws.
NeedsRedraw ==
    /\ gMode = MODE_TEXT
    /\ IF gDualColorMode
       THEN \/ IndexOf(gTitleText, TagScroll) >= 0 \/ IndexOf(gTitleText, TagBlink) >= 0
            \/ IndexOf(gCurrentText, TagScroll) >= 0 \/ IndexOf(gCurrentText, TagBlink) >= 0
       ELSE \/ IndexOf(gCurrentText, TagScroll) >= 0 \/ IndexOf(gCurrentText, TagBlink) >= 0

\* Line 133 without the modulo.
NextScrollOffsetNoWrap(offset) == offset + SCROLL_STEP

\* Line 133 with a cycle two pixels shorter.
NextScrollOffsetShortCycle(offset) ==
    (offset + SCROLL_STEP) % (SCREEN_WIDTH + SCROLL_GAP - SCROLL_STEP)

\* Line 133: gScrollOffset = (gScrollOffset + 2) % (SCREEN_WIDTH + 100).
NextScrollOffset(offset) == (offset + SCROLL_STEP) % (SCREEN_WIDTH + SCROLL_GAP)

\* updateAnimations(), lines 129-158, when the period has elapsed.
updateAnimations ==
    /\ pc = "loop"
    /\ upload.status = "none"
    /\ now - gLastAnimUpdate > ANIM_PERIOD
    /\ gLastAnimUpdate' = now
    /\ gScrollOffset' = NextScrollOffset(gScrollOffset)
    /\ gBlinkState' = ~gBlinkState
    /\ IF NeedsRedraw
       THEN LET r == RenderContent(gTitleText, gCurrentText, gDualColorMode,
                                   gLargeTitleMode, Phase(gScrollOffset', gBlinkState'))
            IN  /\ pc' = IF r.returns THEN "loop" ELSE "hung"
                /\ display' = IF r.returns THEN r.shown ELSE display
                /\ last' = [op |-> "tick", rendered |-> TRUE]
       ELSE /\ pc' = pc
            /\ display' = display
            /\ last' = [op |-> "tick", rendered |-> FALSE]
    /\ UNCHANGED <<storeVars, uploadVars, now, upload, served, renderVars, hexVars>>

\* handleUpload(), UPLOAD_FILE_START (lines 508-510), for a file of the set F.
UploadStart(F) ==
    /\ pc = "loop"
    /\ upload.status = "none"
    /\ served < MaxRequests
    /\ served' = served + 1
    /\ \E f \in F :
          upload' = [status |-> "open", file |-> f, sent |-> 0, before |-> gBitmap]
    /\ gUploadActive' = TRUE
    /\ gUploadBytes' = 0
    /\ last' = [op |-> "upload"]
    /\ UNCHANGED <<storeVars, animVars, now, display, pc, renderVars, hexVars>>

\* Lines 512-517 with the whole chunk counted, whatever room is left.
CanWriteWholeChunk(currentSize) == currentSize

\* Lines 512-517: the bytes of a chunk that are copied into gBitmap.
CanWrite(currentSize) ==
    IF gUploadBytes < BITMAP_SIZE THEN Min(currentSize, BITMAP_SIZE - gUploadBytes) ELSE 0

\* memcpy(gBitmap + gUploadBytes, upload.buf, canWrite), line 515.
CopyChunk(f, sent, canWrite) ==
    [k \in 1..BITMAP_SIZE |->
        IF k - 1 >= gUploadBytes /\ k - 1 < gUploadBytes + canWrite
        THEN FileByte(f, sent + ((k - 1) - gUploadBytes))
        ELSE gBitmap[k]]

\* handleUpload(), UPLOAD_FILE_WRITE (lines 511-517).
UploadWrite ==
    /\ pc = "loop"
    /\ upload.status = "open"
    /\ upload.sent < upload.file.len
    /\ \E c \in ChunkSizes :
          LET currentSize == Min(c, upload.file.len - upload.sent)
              canWrite == CanWrite(currentSize)
          IN  /\ gBitmap' = CopyChunk(upload.file, upload.sent, canWrite)
              /\ gUploadBytes' = gUploadBytes + canWrite
              /\ upload' = [upload EXCEPT !.sent = upload.sent + currentSize]
    /\ last' = [op |-> "upload"]
    /\ UNCHANGED <<gMode, gCurrentText, gTitleText, gDualColorMode, gLargeTitleMode,
                   gLastMessage, gUploadActive, animVars, now, served, display, pc,
                   renderVars, hexVars>>

\* handleUpload(), UPLOAD_FILE_END: no branch of the handler takes it.
UploadEnd ==
    /\ pc = "loop"
    /\ upload.status = "open"
    /\ upload.sent = upload.file.len
    /\ upload' = [upload EXCEPT !.status = "ended"]
    /\ last' = [op |-> "upload"]
    /\ UNCHANGED <<storeVars, uploadVars, animVars, now, served, display, pc,
                   renderVars, hexVars>>

\* handleUpload(), UPLOAD_FILE_ABORTED (lines 518-521); the request is dropped.
UploadAborted ==
    /\ pc = "loop"
    /\ upload.status = "open"
    /\ upload' = NoUpload
    /\ gUploadActive' = FALSE
    /\ gUploadBytes' = 0
    /\ last' = [op |-> "aborted"]
    /\ UNCHANGED <<storeVars, animVars, now, served, display, pc, renderVars, hexVars>>

\* The bitmap branch without the !updated test of line 472.
SubmitBitmapHexToo(hexText) ==
    LET fromFile == gUploadBytes > 0 /\ gUploadBytes = BITMAP_SIZE
        useHex   == Len(hexText) > 0
        parsed   == parseHexToBitmap(hexText, gBitmap, BITMAP_SIZE)
        updated  == fromFile \/ (useHex /\ parsed.n > 0)
    IN  /\ gBitmap' = IF useHex THEN parsed.buf ELSE gBitmap
        /\ gMode' = IF updated THEN MODE_BITMAP ELSE gMode
        /\ display' = IF updated THEN renderBitmapToOLED(gBitmap') ELSE display
        /\ gLastMessage' = IF useHex /\ parsed.n > 0 THEN "hex"
                           ELSE IF fromFile THEN "file"
                           ELSE IF gUploadBytes > 0 THEN "wrong size"
                           ELSE "none"
        /\ gUploadActive' = FALSE
        /\ gUploadBytes' = 0
        /\ pc' = pc
        /\ UNCHANGED <<gCurrentText, gTitleText>>

\* The bitmap branch without the reset of line 501.
SubmitBitmapKeepsCount(hexText) ==
    LET fromFile == gUploadBytes > 0 /\ gUploadBytes = BITMAP_SIZE
        useHex   == ~fromFile /\ Len(hexText) > 0
        parsed   == parseHexToBitmap(hexText, gBitmap, BITMAP_SIZE)
        updated  == fromFile \/ (useHex /\ parsed.n > 0)
    IN  /\ gBitmap' = IF useHex THEN parsed.buf ELSE gBitmap
        /\ gMode' = IF updated THEN MODE_BITMAP ELSE gMode
        /\ display' = IF updated THEN renderBitmapToOLED(gBitmap') ELSE display
        /\ gLastMessage' = IF fromFile THEN "file"
                           ELSE IF useHex /\ parsed.n > 0 THEN "hex"
                           ELSE IF gUploadBytes > 0 THEN "wrong size"
                           ELSE "none"
        /\ gUploadActive' = FALSE
        /\ gUploadBytes' = gUploadBytes
        /\ pc' = pc
        /\ UNCHANGED <<gCurrentText, gTitleText>>

\* handleSubmit(), lines 463-483: the bitmap branch.
SubmitBitmap(hexText) ==
    LET fromFile == gUploadBytes > 0 /\ gUploadBytes = BITMAP_SIZE
        useHex   == ~fromFile /\ Len(hexText) > 0
        parsed   == parseHexToBitmap(hexText, gBitmap, BITMAP_SIZE)
        updated  == fromFile \/ (useHex /\ parsed.n > 0)
    IN  /\ gBitmap' = IF useHex THEN parsed.buf ELSE gBitmap
        /\ gMode' = IF updated THEN MODE_BITMAP ELSE gMode
        /\ display' = IF updated THEN renderBitmapToOLED(gBitmap') ELSE display
        /\ gLastMessage' = IF fromFile THEN "file"
                           ELSE IF useHex /\ parsed.n > 0 THEN "hex"
                           ELSE IF gUploadBytes > 0 THEN "wrong size"
                           ELSE "none"
        /\ gUploadActive' = FALSE
        /\ gUploadBytes' = 0
        /\ pc' = pc
        /\ UNCHANGED <<gCurrentText, gTitleText>>

\* The text branch without the placeholder of line 485.
SubmitTextNoPlaceholder(title, text) ==
    LET r == RenderContent(title, text, gDualColorMode', gLargeTitleMode', CurPhase)
    IN  /\ gCurrentText' = text
        /\ gTitleText' = title
        /\ gMode' = MODE_TEXT
        /\ gBitmap' = gBitmap
        /\ IF r.returns
           THEN /\ display' = r.shown
                /\ gLastMessage' = IF gDualColorMode' THEN "dual" ELSE "text"
                /\ gUploadActive' = FALSE
                /\ gUploadBytes' = 0
                /\ pc' = pc
           ELSE /\ display' = display
                /\ gLastMessage' = "none"
                /\ UNCHANGED uploadVars
                /\ pc' = "hung"

\* handleSubmit(), lines 484-498: the text branch.
SubmitText(title, text) ==
    LET shownText == IF Len(text) = 0 THEN MsgEmpty ELSE text
        r == RenderContent(title, shownText, gDualColorMode', gLargeTitleMode', CurPhase)
    IN  /\ gCurrentText' = shownText
        /\ gTitleText' = title
        /\ gMode' = MODE_TEXT
        /\ gBitmap' = gBitmap
        /\ IF r.returns
           THEN /\ display' = r.shown
                /\ gLastMessage' = IF gDualColorMode' THEN "dual" ELSE "text"
                /\ gUploadActive' = FALSE
                /\ gUploadBytes' = 0
                /\ pc' = pc
           ELSE /\ display' = display
                /\ gLastMessage' = "none"
                /\ UNCHANGED uploadVars
                /\ pc' = "hung"

\* The request handleSubmit() answers: one whose file part has been received,
\* or one without a file part.
RequestReady ==
    \/ upload.status = "ended"
    \/ upload.status = "none" /\ served < MaxRequests

\* What last records of a call of handleSubmit().
SubmitRecord(mode, title, text, hexText) ==
    [op |-> "submit", mode |-> mode, bitmapMode |-> ToLowerCase(mode) = BITMAP_WORD,
     title |-> title, text |-> text, hexText |-> hexText,
     uploaded |-> gUploadBytes,
     fileLen |-> IF upload.status = "ended" THEN upload.file.len ELSE 0,
     before |-> IF upload.status = "ended" THEN upload.before ELSE gBitmap]

\* handleSubmit(), lines 449-504, called once the request has been received,
\* with the arguments of the request drawn from the given sets.
handleSubmit(Modes, Titles, Texts, Hexes) ==
    /\ pc = "loop"
    /\ RequestReady
    /\ \E mode \in Modes, flags \in FlagArgs :
          /\ gDualColorMode' = flags[1]
          /\ gLargeTitleMode' = flags[2]
          /\ IF ToLowerCase(mode) = BITMAP_WORD
             THEN \E hexText \in Hexes :
                     /\ SubmitBitmap(hexText)
                     /\ last' = SubmitRecord(mode, <<>>, <<>>, hexText)
             ELSE \E title \in Titles, text \in Texts :
                     /\ SubmitText(title, text)
                     /\ last' = SubmitRecord(mode, title, text, <<>>)
    /\ served' = IF upload.status = "none" THEN served + 1 ELSE served
    /\ upload' = NoUpload
    /\ UNCHANGED <<animVars, now, renderVars, hexVars>>

(***************************************************************************)
(* Spec: text and bitmap updates without a file part, and the animation    *)
(* clock.                                                                  *)
(***************************************************************************)
TextArgs  == {<<>>, MsgBlinkAB, TextOpen}
TitleArgs == {<<>>, TitleScroll}
HexArgs   == {<<>>, HexNoDigits, HexFF00}

Submit == handleSubmit(ModeArgs, TitleArgs, TextArgs, HexArgs)

\* Requests that spell the mode otherwise.
SubmitSpelled == handleSubmit(ModeSpellings, {TitleScroll}, {<<>>, TextPlain}, {HexFF00})

Next ==
    \/ Setup
    \/ Elapse
    \/ updateAnimations
    \/ Submit
    \/ SubmitSpelled

Spec == Init /\ [][Next]_vars

(***************************************************************************)
(* SpecUpload: requests that carry a file, received in chunks.             *)
(***************************************************************************)
Files == {File(1, 1), File(2, 1024), File(3, 1500)}
UploadTextArgs == {MsgBlinkAB}
UploadHexArgs  == {<<>>, HexNoDigits, HexFF00}

ElapseUpload == ElapseBy({ANIM_PERIOD + 1})
StartUpload  == UploadStart(Files)
SubmitUpload == handleSubmit(ModeArgs, {<<>>}, UploadTextArgs, UploadHexArgs)

NextUpload ==
    \/ Setup
    \/ ElapseUpload
    \/ updateAnimations
    \/ StartUpload
    \/ UploadWrite
    \/ UploadEnd
    \/ UploadAborted
    \/ SubmitUpload

SpecUpload == Init /\ [][NextUpload]_vars

(***************************************************************************)
(* SpecQuery: the handlers that answer without updating (the root page,    *)
(* the state query and the raw bitmap export) next to uploads, updates and *)
(* the animation clock.                                                    *)
(***************************************************************************)
\* server.send(...) with something else written on the way.
RespondAndClearTitle(kind, body) ==
    /\ pc = "loop"
    /\ upload.status = "none"
    /\ last' = [op |-> kind, body |-> body]
    /\ gTitleText' = <<>>
    /\ UNCHANGED <<gMode, gCurrentText, gDualColorMode, gLargeTitleMode, gBitmap,
                   gLastMessage, uploadVars, animVars, now, upload, served, display, pc,
                   renderVars, hexVars>>

\* server.send(...): the handler answers the request with body and returns.
Respond(kind, body) ==
    /\ pc = "loop"
    /\ upload.status = "none"
    /\ last' = [op |-> kind, body |-> body]
    /\ UNCHANGED <<storeVars, uploadVars, animVars, now, upload, served, display, pc,
                   renderVars, hexVars>>

\* The parts of htmlPage() (lines 334-420) that are taken from the globals:
\* the status banner, the preview of the current display and the values the
\* form is filled with.
htmlPage ==
    [banner  |-> gLastMessage,
     preview |-> IF gMode = MODE_TEXT
                 THEN IF gDualColorMode
                      THEN <<IF Len(gTitleText) > 0 THEN gTitleText
                             ELSE <<"(", "n", "o", " ", "t", "i", "t", "l", "e", ")">>,
                             gCurrentText>>
                      ELSE <<gCurrentText>>
                 ELSE <<SubSeq(gBitmap, 1, 64)>>,
     mode |-> gMode, dual |-> gDualColorMode, large |-> gLargeTitleMode,
     titleInput |-> gTitleText, textInput |-> gCurrentText]

\* String::replace(find, with) of the Arduino core, for a one-character find.
RECURSIVE ReplaceChar(_, _, _)
ReplaceChar(str, c, with) ==
    IF str = <<>> THEN <<>>
    ELSE (IF Head(str) = c THEN with ELSE <<Head(str)>>) \o ReplaceChar(Tail(str), c, with)

\* Lines 429-431 and 433-435: backslashes, then double quotes, are escaped.
JsonSafe(str) == ReplaceChar(ReplaceChar(str, "\\", <<"\\", "\\">>), "\"", <<"\\", "\"">>)

\* The body handleState() sends (lines 427-436).
StateBody ==
    <<"{", "\"", "m", "o", "d", "e", "\"", ":">> \o <<IF gMode = MODE_TEXT THEN "0" ELSE "1">>
    \o <<",", "\"", "d", "u", "a", "l", "C", "o", "l", "o", "r", "M", "o", "d", "e", "\"", ":">>
    \o (IF gDualColorMode THEN <<"t", "r", "u", "e">> ELSE <<"f", "a", "l", "s", "e">>)
    \o <<",", "\"", "t", "e", "x", "t", "\"", ":", "\"">> \o JsonSafe(gCurrentText) \o <<"\"">>
    \o <<",", "\"", "t", "i", "t", "l", "e", "\"", ":", "\"">> \o JsonSafe(gTitleText) \o <<"\"", "}">>

\* handleRoot(), lines 422-424.
handleRoot == Respond("root", htmlPage)

\* handleState(), lines 426-438.
handleState == Respond("state", StateBody)

\* handleBitmapBin(), lines 440-447.
handleBitmapBin == Respond("bitmap.bin", gBitmap)

QueryFiles == {File(2, BITMAP_SIZE)}

StartQueryUpload == UploadStart(QueryFiles)
SubmitQuery == handleSubmit(ModeArgs, {TitleScroll}, {MsgBlinkAB}, {HexFF00})

NextQuery ==
    \/ Setup
    \/ ElapseUpload
    \/ updateAnimations
    \/ StartQueryUpload
    \/ UploadWrite
    \/ UploadEnd
    \/ UploadAborted
    \/ SubmitQuery
    \/ handleRoot
    \/ handleState
    \/ handleBitmapBin

SpecQuery == Init /\ [][NextQuery]_vars

(***************************************************************************)
(* SpecDual: text updates that carry a title, and the animation clock.     *)
(***************************************************************************)
TitleAlert == <<"<", "s", "c", "r", "o", "l", "l", ">", "A", "L", "E", "R", "T">>
BodyNormal == <<"N", "o", "r", "m", "a", "l", " ", "b", "o", "d", "y", " ", "t", "e", "x", "t">>

DualTitleArgs == {<<>>, TitleAlert}

SubmitDual == handleSubmit({<<>>}, DualTitleArgs, {BodyNormal}, {<<>>})

NextDual ==
    \/ Setup
    \/ Elapse
    \/ updateAnimations
    \/ SubmitDual

SpecDual == Init /\ [][NextDual]_vars

(***************************************************************************)
(* SpecTags: text updates whose body spells the animation tags in several  *)
(* ways, and the animation clock.                                          *)
(***************************************************************************)
TagBodyArgs == {TextPlain, MsgBlinkAB, MsgUpperScroll, MsgSpacedBlink}

SubmitTags == handleSubmit({<<>>}, {<<>>}, TagBodyArgs, {<<>>})

NextTags ==
    \/ Setup
    \/ Elapse
    \/ updateAnimations
    \/ SubmitTags

SpecTags == Init /\ [][NextTags]_vars

(***************************************************************************)
(* SpecHex: one call of parseHexToBitmap on a hex text and a buffer that   *)
(* holds earlier content.  hexOut is the buffer and, once pc is "parsed",  *)
(* the count returned.                                                     *)
(***************************************************************************)
\* Longest string of the exhaustive set of hex texts.
MaxHexLen == 4

HexAlphabet == {"0", "9", "a", "F", "x", " "}
SmallHex == UNION {[1..k -> HexAlphabet] : k \in 0..MaxHexLen}

HexBare      == <<"F", "F", " ", "0", "0">>
HexPrefixed  == <<"0", "x", "F", "F", ",", " ", "0", "x", "0", "0">>
HexPrefixed4 == <<"0", "x", "F", "F", ",", "0", "x", "0", "0", ",",
                  "0", "x", "A", "A", ",", "0", "x", "5", "5">>
HexBare4     == <<"f", "f", "0", "0", "a", "a", "5", "5">>
\* Exactly as many digits as the bitmap takes, one less, one more, two more.
HexFull      == Rep(<<"a", "5">>, BITMAP_SIZE)
HexShort     == SubSeq(HexFull, 1, 2 * BITMAP_SIZE - 1)
HexOver1     == HexFull \o <<"1">>
HexOver2     == HexFull \o <<"1", "2">>

CuratedHex == {HexFF00, HexNoDigits, HexBare, HexPrefixed, HexPrefixed4, HexBare4,
               HexFull, HexShort, HexOver1, HexOver2}

\* A buffer left over from an earlier bitmap.
StaleBitmap == [k \in 1..BITMAP_SIZE |-> ((k * 37) % 255) + 1]

InitHex ==
    /\ InitStore /\ InitEnv /\ InitNoPass
    /\ gScrollOffset = 0
    /\ gBlinkState = FALSE
    /\ pc = "hex"
    /\ hexIn \in CuratedHex \cup SmallHex
    /\ \E b \in {ZeroBitmap, StaleBitmap} : hexOut = [n |-> 0, buf |-> b]

ParseHex ==
    /\ pc = "hex"
    /\ hexOut' = parseHexToBitmap(hexIn, hexOut.buf, BITMAP_SIZE)
    /\ pc' = "parsed"
    /\ UNCHANGED <<storeVars, uploadVars, animVars, now, upload, served, display, last,
                   renderVars, hexIn>>

NextHex == ParseHex

SpecHex == InitHex /\ [][NextHex]_vars

(***************************************************************************)
(* Properties of a render pass (SpecRender).                               *)
(***************************************************************************)
\* The iteration about to run draws at least one glyph.
Draws == Len(pass'.drawn) > Len(pass.drawn)

\* The '<' under the scan index has no '>' anywhere after it.
AtOpenBracket ==
    /\ pc = "render" /\ pass.status = "run"
    /\ pass.i < Len(msg)
    /\ msg[pass.i + 1] = "<"
    /\ \A k \in (pass.i + 2)..Len(msg) : msg[k] # ">"

\* C1: with scroll mode off, every glyph renderTextAtPosition draws is drawn
\* at the X the cursor has at the moment of drawing, that is after the wrap,
\* so a character that does not fit is drawn at the left edge of the region
\* on the new line.  (The cursor then advances by one character width.)
C1_DrawnAtCursor ==
    [][(pc = "render" /\ variant = "region" /\ ~pass.scrollMode /\ Draws)
        => /\ pass'.drawn[Len(pass.drawn) + 1].x = pass'.cursorX - 6 * pass.textSize
           /\ (Wraps(region, pass)
                => pass'.drawn[Len(pass.drawn) + 1].x = region.startX)]_vars

\* A character that did not fit has been drawn, with scroll mode off.
C1_Wrapped ==
    /\ pc = "render" /\ variant = "region" /\ msg = MsgLongLine
    /\ ~pass.scrollMode
    /\ pass.cursorY = region.startY + 8
    /\ Len(pass.drawn) = 22

\* C2: in both renderers a '<' with no '>' after it is not a tag: the
\* iteration lays it out as a character (or leaves the loop on vertical
\* clipping), changes no format field and moves the scan to the character
\* right after it.
C2_OpenBracketIsLiteral ==
    [][AtOpenBracket /\ pass' # pass
        => \/ pass'.status = "clip"
           \/ /\ pass'.i = pass.i + 1
              /\ pass'.textSize = pass.textSize
              /\ pass'.boldMode = pass.boldMode
              /\ pass'.italicMode = pass.italicMode
              /\ pass'.invertedMode = pass.invertedMode
              /\ pass'.scrollMode = pass.scrollMode
              /\ pass'.blinkMode = pass.blinkMode]_vars

\* The scan has gone through a '<' that had no '>' after it.
C2_OpenBracketScanned ==
    /\ pc = "render" /\ msg = MsgBlinkOpen
    /\ pass.mark # <<>>

\* C3: every iteration of a render pass moves the scan index forward, until
\* the string is exhausted or the loop is left on vertical clipping; so the
\* pass ends.
C3_ScanAdvances ==
    [][(pc = "render" /\ pass.status = "run" /\ pass' # pass)
        => \/ pass'.i > pass.i
           \/ pass'.status \in {"end", "clip"}]_vars

\* A pass that has come back to the configuration it was in before.
C3_PassRepeats == pc = "render" /\ pass.status = "hung"

(***************************************************************************)
(* Properties of the submit and upload handlers (Spec, SpecUpload).        *)
(***************************************************************************)
\* C4: a bitmap update whose uploaded file has the wrong size (and that
\* carries no hex text) leaves gBitmap, once the chunks and the submit have
\* been processed, equal to what it was before the request.
C4_WrongSizeKeepsBitmap ==
    (/\ last.op = "submit" /\ last.bitmapMode
     /\ last.fileLen > 0 /\ last.fileLen # BITMAP_SIZE
     /\ last.hexText = <<>>)
        => gBitmap = last.before

\* A bitmap update with an undersize file has been answered "wrong size".
C4_WrongSizeAnswered ==
    /\ last.op = "submit" /\ last.bitmapMode
    /\ last.fileLen > 0 /\ last.fileLen < BITMAP_SIZE
    /\ last.hexText = <<>>
    /\ gLastMessage = "wrong size"

\* C5: a bitmap-mode update with no uploaded bytes and a hex text that is
\* empty or holds no hex digit pair changes none of gMode, gCurrentText,
\* gTitleText, gDualColorMode, gLargeTitleMode and gBitmap, and renders
\* nothing.
C5_NoDataKeepsContent ==
    [][(/\ pc = "loop" /\ last'.op = "submit" /\ served' = served + 1
        /\ last'.bitmapMode /\ last'.uploaded = 0
        /\ last'.hexText \in {<<>>, HexNoDigits})
        => /\ UNCHANGED <<gMode, gCurrentText, gTitleText, gDualColorMode,
                          gLargeTitleMode, gBitmap>>
           /\ display' = display]_vars

\* A bitmap-mode update without valid data has been answered while a bitmap
\* was stored.
C5_NoDataAnswered ==
    /\ last.op = "submit" /\ last.bitmapMode /\ last.uploaded = 0
    /\ last.hexText = HexNoDigits
    /\ gMode = MODE_BITMAP
    /\ gLastMessage = "none"

\* C10: once a file of n bytes has been received through handleUpload, in
\* any chunking, gBitmap is the first BITMAP_SIZE bytes of the file when
\* n > BITMAP_SIZE, and the n bytes of the file followed by zeros when
\* n < BITMAP_SIZE.
C10_UploadTruncatesOrPads ==
    upload.status = "ended"
        => LET n == upload.file.len
           IN  /\ n > BITMAP_SIZE
                    => \A k \in 1..BITMAP_SIZE : gBitmap[k] = FileByte(upload.file, k - 1)
               /\ n < BITMAP_SIZE
                    => \A k \in 1..BITMAP_SIZE :
                          gBitmap[k] = IF k <= n THEN FileByte(upload.file, k - 1) ELSE 0

\* An undersize file has been received after a bitmap had been stored.
C10_UndersizeReceived ==
    /\ upload.status = "ended"
    /\ upload.file.len < BITMAP_SIZE
    /\ upload.before # ZeroBitmap

(***************************************************************************)
(* Properties of the animation tick (Spec).                                *)
(***************************************************************************)
\* The string holds the literal "<scroll>" or the literal "<blink>".
HasMarker(s) ==
    \/ \E k \in 1..(Len(s) - Len(TagScroll) + 1) :
          SubSeq(s, k, k + Len(TagScroll) - 1) = TagScroll
    \/ \E k \in 1..(Len(s) - Len(TagBlink) + 1) :
          SubSeq(s, k, k + Len(TagBlink) - 1) = TagBlink

\* The step is a tick of updateAnimations: no other step flips gBlinkState.
IsTick == gBlinkState' # gBlinkState

\* What the render of the stored title and body under the phase the tick has
\* just set leaves on the panel.
TickShown ==
    RenderContent(gTitleText, gCurrentText, gDualColorMode, gLargeTitleMode,
                  Phase(gScrollOffset', gBlinkState')).shown

\* C6 (as the code has it): on a tick in text mode the render call for the
\* stored title and body is made, with the scroll offset and blink phase the
\* tick has just set, exactly when the body holds "<scroll>" or "<blink>",
\* or the dual-colour flag is set and the title holds one of them; when the
\* call returns the panel shows that render, and without the call the panel
\* is left as it was.
C6_TickRedraws ==
    [][(IsTick /\ gMode = MODE_TEXT)
        => /\ last'.rendered
                <=> (HasMarker(gCurrentText) \/ (gDualColorMode /\ HasMarker(gTitleText)))
           /\ (last'.rendered /\ pc' = "loop") => display' = TickShown
           /\ ~last'.rendered => display' = display]_vars

\* A tick has redrawn dual-colour content because of a marker in its title.
C6_TitleRedrawn ==
    /\ last.op = "tick" /\ last.rendered /\ pc = "loop"
    /\ gMode = MODE_TEXT /\ gDualColorMode
    /\ HasMarker(gTitleText) /\ ~HasMarker(gCurrentText)

\* C6 (as stated): on a tick in text mode the render call is made exactly
\* when the title or the body holds "<scroll>" or "<blink>", whatever the
\* dual-colour flag is.
C6_TickRedrawsAnyFlag ==
    [][(IsTick /\ gMode = MODE_TEXT)
        => (last'.rendered <=> (HasMarker(gCurrentText) \/ HasMarker(gTitleText)))]_vars

\* C7: a tick in bitmap mode makes no render call and leaves the panel as
\* the last bitmap render left it, whatever the title, the body and the
\* dual-colour flag are.
C7_BitmapTickIdle ==
    [][(IsTick /\ gMode = MODE_BITMAP)
        => /\ ~last'.rendered
           /\ display' = display
           /\ display.kind = "bitmap"]_vars

\* A tick has passed in bitmap mode with markers in the stored title and
\* body and the dual-colour flag set.
C7_BitmapTicked ==
    /\ last.op = "tick" /\ gMode = MODE_BITMAP
    /\ gDualColorMode
    /\ HasMarker(gTitleText) /\ HasMarker(gCurrentText)
    /\ display.kind = "bitmap"

(***************************************************************************)
(* Properties of parseHexToBitmap (SpecHex).                               *)
(***************************************************************************)
Hex16Lower == <<"0", "1", "2", "3", "4", "5", "6", "7", "8", "9",
                "a", "b", "c", "d", "e", "f">>
Hex16Upper == <<"0", "1", "2", "3", "4", "5", "6", "7", "8", "9",
                "A", "B", "C", "D", "E", "F">>
IsHex16(c) == \E v \in 1..16 : c = Hex16Lower[v] \/ c = Hex16Upper[v]
Hex16Value(c) == (CHOOSE v \in 1..16 : c = Hex16Lower[v] \/ c = Hex16Upper[v]) - 1

\* C8: for a text with d hex digits the count returned is
\* min(d \div 2, BITMAP_SIZE); byte k below the count is 16 times the value
\* of digit 2k plus the value of digit 2k + 1; the bytes from the count on
\* are zero; "ff00" gives FF, 00 and zeros.
C8_HexClosedForm ==
    pc = "parsed"
        => LET digits == SelectSeq(hexIn, IsHex16)
               n == Min(Len(digits) \div 2, BITMAP_SIZE)
           IN  /\ hexOut.n = n
               /\ Len(hexOut.buf) = BITMAP_SIZE
               /\ \A k \in 0..(BITMAP_SIZE - 1) :
                     hexOut.buf[k + 1] =
                         IF k < n
                         THEN 16 * Hex16Value(digits[2 * k + 1]) + Hex16Value(digits[2 * k + 2])
                         ELSE 0
               /\ hexIn = HexFF00
                     => /\ hexOut.n = 2
                        /\ hexOut.buf[1] = 255 /\ hexOut.buf[2] = 0
                        /\ \A k \in 3..BITMAP_SIZE : hexOut.buf[k] = 0

\* More digits than the bitmap takes have been parsed into a buffer that
\* held earlier content.
C8_OverlongParsed ==
    /\ pc = "parsed" /\ hexIn = HexOver2
    /\ hexOut.n = BITMAP_SIZE
    /\ hexOut.buf[BITMAP_SIZE] = 165

\* C9: the "0x" form gives the bytes of the bare form: "0xFF, 0x00" gives
\* the count and the leading bytes FF, 00 of "FF 00", and
\* "0xFF,0x00,0xAA,0x55" gives FF, 00, AA, 55.
C9_PrefixedAsBare ==
    pc = "parsed"
        => /\ hexIn = HexPrefixed
                => /\ hexOut.n = parseHexToBitmap(HexBare, ZeroBitmap, BITMAP_SIZE).n
                   /\ hexOut.buf[1] = 255 /\ hexOut.buf[2] = 0
           /\ hexIn = HexPrefixed4
                => /\ hexOut.buf[1] = 255 /\ hexOut.buf[2] = 0
                   /\ hexOut.buf[3] = 170 /\ hexOut.buf[4] = 85

\* The "0x" form has been parsed.
C9_PrefixedParsed == pc = "parsed" /\ hexIn = HexPrefixed /\ hexOut.n = 3

(***************************************************************************)
(* Properties of the update request (Spec, SpecUpload).                    *)
(***************************************************************************)
\* The step is a call of handleSubmit: it answers a request without a file
\* part (served grows) or one whose file part has been received.
IsSubmit ==
    /\ pc = "loop" /\ last'.op = "submit"
    /\ (served' = served + 1 \/ upload.status = "ended")

\* The bytes of the file part of the request being answered, as a bitmap.
FileBitmap == [k \in 1..BITMAP_SIZE |-> FileByte(upload.file, k - 1)]

\* A bitmap-mode update that uses the file part when fileUsed holds and the
\* hex text otherwise.
BitmapUpdateAs(fileUsed) ==
    IF fileUsed
    THEN /\ gBitmap' = FileBitmap
         /\ gMode' = MODE_BITMAP
         /\ display' = renderBitmapToOLED(FileBitmap)
    ELSE LET parsed == parseHexToBitmap(last'.hexText, gBitmap, BITMAP_SIZE)
         IN  IF parsed.n > 0
             THEN /\ gBitmap' = parsed.buf
                  /\ gMode' = MODE_BITMAP
                  /\ display' = renderBitmapToOLED(parsed.buf)
             ELSE /\ gMode' = gMode
                  /\ display' = display

C12_TextUpdate ==
    [][(IsSubmit /\ ToLowerCase(last'.mode) # BITMAP_WORD)
        => LET shownText == IF last'.text = <<>> THEN MsgEmpty ELSE last'.text
           IN  /\ gMode' = MODE_TEXT
               /\ gCurrentText' = shownText
               /\ gTitleText' = last'.title
               /\ pc' = "loop"
                    => display' =
                          IF gDualColorMode'
                          THEN renderDualColorToOLED(last'.title, shownText,
                                                     gLargeTitleMode', CurPhase).shown
                          ELSE renderTextToOLED(shownText, CurPhase).shown
               /\ pc' # "loop" => display' = display]_vars

\* A text update with an empty text and a title has been answered in the
\* dual-colour layout, the mode argument differing from "bitmap".
C12_EmptyTextShown ==
    /\ last.op = "submit" /\ last.mode = <<"T", "e", "x", "t">>
    /\ last.text = <<>> /\ last.title = TitleScroll
    /\ gDualColorMode /\ display.kind = "dual"
    /\ gCurrentText = MsgEmpty

(***************************************************************************)
(* Properties of the layout (SpecRender).                                  *)
(***************************************************************************)
\* The scan is at a character of the source, tags excluded.
AtSourceChar ==
    /\ pc = "render" /\ variant = "region"
    /\ pass.status = "run" /\ pass.i < Len(msg)
    /\ ~AtTag(msg, pass)

\* The pass has just left its loop.
PassEnds == pc = "render" /\ pass.status = "run" /\ pass'.status \in {"end", "clip"}

\* The source without the literal blink tags.
WithoutBlinkTags(m) == Remove(Remove(m, TagBlink), TagBlinkEnd)

\* C13: with blinkOn false a character inside a blink span draws no glyph,
\* does not move the cursor to the right and does not end the pass (a
\* character other than a line feed leaves the cursor where it is); with
\* blinkOn true the pass draws exactly what it draws for the source without
\* the blink tags.
C13_BlinkSpan ==
    [][/\ (AtSourceChar /\ pass.blinkMode /\ ~gBlinkState /\ pass' # pass)
          => /\ pass'.drawn = pass.drawn
             /\ pass'.cursorX <= pass.cursorX
             /\ pass'.status = "run"
             /\ pass'.i = pass.i + 1
             /\ msg[pass.i + 1] # "\n"
                  => pass'.cursorX = pass.cursorX /\ pass'.cursorY = pass.cursorY
       /\ (PassEnds /\ variant = "region" /\ gBlinkState)
          => pass'.drawn
               = renderTextAtPosition(WithoutBlinkTags(msg), region, CurPhase).drawn]_vars

\* A pass over "<blink>A</blink>B" with blinkOn false has ended: only B has
\* been drawn, at the left edge.
C13_BlinkedOff ==
    /\ pc = "render" /\ variant = "region" /\ msg = MsgBlinkAB
    /\ ~gBlinkState /\ pass.status = "end"
    /\ Len(pass.drawn) = 1
    /\ pass.drawn[1].ch = "B" /\ pass.drawn[1].x = region.startX

\* The iteration lays out a character: it is not a line feed or carriage
\* return, not skipped by blink, and the loop is not left on clipping.
LaysOut ==
    /\ AtSourceChar
    /\ msg[pass.i + 1] \notin {"\n", "\r"}
    /\ ~(pass.blinkMode /\ ~gBlinkState)
    /\ pass'.status = "run" /\ pass'.i = pass.i + 1

\* A character laid out with draw X x writes its first glyph at x when x is
\* in the band [-charWidth, maxW), and writes nothing otherwise.
DrawnAtX(x) ==
    IF x >= -(6 * pass.textSize) /\ x < region.maxW
    THEN Draws /\ pass'.drawn[Len(pass.drawn) + 1].x = x
    ELSE pass'.drawn = pass.drawn

\* C14 (as the code has it): for a character laid out in scroll mode the
\* draw X at scrollOffset 0 is cursorX (as it is before the wrap step); at
\* scrollOffset SCREEN_WIDTH it is cursorX - SCREEN_WIDTH when that is not
\* below -charWidth, and cursorX - SCREEN_WIDTH + maxW + SCROLL_GAP
\* otherwise.
C14_ScrollShift ==
    [][(LaysOut /\ pass.scrollMode)
        => /\ gScrollOffset = 0 => DrawnAtX(pass.cursorX)
           /\ gScrollOffset = SCREEN_WIDTH
                => DrawnAtX(IF pass.cursorX - SCREEN_WIDTH < -(6 * pass.textSize)
                            THEN pass.cursorX - SCREEN_WIDTH + region.maxW + SCROLL_GAP
                            ELSE pass.cursorX - SCREEN_WIDTH)]_vars

\* C14 (as stated): the draw X at scrollOffset 0 is cursorX and at
\* scrollOffset SCREEN_WIDTH it is cursorX - SCREEN_WIDTH.
C14_ScrollShiftPlain ==
    [][(LaysOut /\ pass.scrollMode)
        => /\ gScrollOffset = 0 => DrawnAtX(pass.cursorX)
           /\ gScrollOffset = SCREEN_WIDTH
                => DrawnAtX(pass.cursorX - SCREEN_WIDTH)]_vars

\* At scrollOffset SCREEN_WIDTH the first character of a scrolled text has
\* been drawn SCROLL_GAP pixels from the left edge, and a later one left of
\* the edge.
C14_ScrolledFullWidth ==
    /\ pc = "render" /\ variant = "region" /\ msg = MsgScrollLong
    /\ gScrollOffset = SCREEN_WIDTH
    /\ Len(pass.drawn) >= 2
    /\ pass.drawn[1].x = SCROLL_GAP
    /\ pass.drawn[Len(pass.drawn)].x < 0

\* The '<' under the scan index has a '>' after it.
AtClosedTag ==
    /\ pc = "render" /\ pass.status = "run"
    /\ pass.i < Len(msg)
    /\ msg[pass.i + 1] = "<"
    /\ \E k \in (pass.i + 2)..Len(msg) : msg[k] = ">"

\* The position (1-based) of the first '>' after the '<' under the scan
\* index, and the tag body: lower-cased and trimmed.
TagClose == CHOOSE k \in (pass.i + 2)..Len(msg) :
                msg[k] = ">" /\ \A j \in (pass.i + 2)..(k - 1) : msg[j] # ">"
TagBody == Trim(ToLowerCase(SubSeq(msg, pass.i + 2, TagClose - 1)))

\* A flag that the tag on sets and the tag off (or the alias) clears, and
\* that every other tag leaves alone.
FlagAfter(old, on, offs) ==
    IF TagBody = on THEN TRUE ELSE IF TagBody \in offs THEN FALSE ELSE old

\* C15: a terminated tag is consumed without a glyph being drawn and the
\* scan goes on after its '>'; its body, lower-cased and trimmed, changes
\* the fields as the tag table says: s1/s2/s3 the text size; b, /b bold;
\* i, /i italic; inv, n, /inv inverted; scroll, /scroll and blink, /blink
\* their flags (the older renderer has no such tags); br puts cursorX at the
\* left edge of the region and adds the line height to cursorY; every other
\* field, and every field under any other body, stays as it is.
C15_TagTable ==
    [][(AtClosedTag /\ pass' # pass)
        => /\ pass'.drawn = pass.drawn
           /\ pass'.status = "run"
           /\ pass'.i = TagClose
           /\ pass'.textSize =
                 (CASE TagBody = <<"s", "1">> -> 1
                    [] TagBody = <<"s", "2">> -> 2
                    [] TagBody = <<"s", "3">> -> 3
                    [] OTHER -> pass.textSize)
           /\ pass'.boldMode = FlagAfter(pass.boldMode, <<"b">>, {<<"/", "b">>})
           /\ pass'.italicMode = FlagAfter(pass.italicMode, <<"i">>, {<<"/", "i">>})
           /\ pass'.invertedMode =
                 FlagAfter(pass.invertedMode, <<"i", "n", "v">>,
                           {<<"n">>, <<"/", "i", "n", "v">>})
           /\ pass'.scrollMode =
                 (IF variant = "legacy" THEN pass.scrollMode
                  ELSE FlagAfter(pass.scrollMode, <<"s", "c", "r", "o", "l", "l">>,
                                 {<<"/", "s", "c", "r", "o", "l", "l">>}))
           /\ pass'.blinkMode =
                 (IF variant = "legacy" THEN pass.blinkMode
                  ELSE FlagAfter(pass.blinkMode, <<"b", "l", "i", "n", "k">>,
                                 {<<"/", "b", "l", "i", "n", "k">>}))
           /\ pass'.cursorX = (IF TagBody = <<"b", "r">> THEN region.startX ELSE pass.cursorX)
           /\ pass'.cursorY = (IF TagBody = <<"b", "r">>
                               THEN pass.cursorY + 8 * pass.textSize ELSE pass.cursorY)]_vars

\* The tags of the table, in upper and lower case and with blanks around
\* the body, have been scanned: every flag has been set and cleared again,
\* and the unknown tag consumed.
C15_TableScanned ==
    /\ pc = "render" /\ variant = "region" /\ msg = MsgTagTable
    /\ pass.i = Len(msg) - 1
    /\ pass.textSize = 1
    /\ ~pass.boldMode /\ ~pass.italicMode /\ ~pass.invertedMode
    /\ ~pass.scrollMode /\ ~pass.blinkMode
    /\ pass.drawn = <<>>


\* The iteration takes a character through the wrap step: it is not a tag,
\* line feed or carriage return and is not skipped by blink.
ReachesWrap ==
    /\ pc = "render" /\ AtChar(msg, pass)
    /\ ~(variant = "region" /\ BlinkSkips(pass, CurPhase))
    /\ pass' # pass

\* cursorY as the wrap step leaves it.
WrappedY ==
    IF pass.cursorX + 6 * pass.textSize > region.startX + region.maxW
    THEN Int16(pass.cursorY + 8 * pass.textSize)
    ELSE pass.cursorY

\* C16: a character that, after the wrap step, has cursorY + lineHeight
\* beyond the bottom edge of the region ends the pass: it is not drawn, the
\* scan stays on it, and what the pass has drawn is what the render call
\* returns; any other character taken through the wrap step leaves the pass
\* running.  Every glyph is therefore written in an iteration that leaves
\* cursorY + lineHeight <= startY + maxH.
C16_VerticalClip ==
    [][/\ ReachesWrap
          => IF WrappedY + 8 * pass.textSize > region.startY + region.maxH
             THEN /\ pass'.status = "clip"
                  /\ pass'.drawn = pass.drawn /\ pass'.i = pass.i
                  /\ variant = "region"
                       => renderTextAtPosition(msg, region, CurPhase).drawn = pass.drawn
             ELSE pass'.status = "run" /\ pass'.i = pass.i + 1
       /\ (pc = "render" /\ pass.status = "clip") => pass' = pass
       /\ (pc = "render" /\ Draws)
          => /\ pass'.cursorY = WrappedY
             /\ pass'.cursorY + 8 * pass.textSize <= region.startY + region.maxH]_vars

\* A line of size-3 characters has filled two rows of the region and the
\* pass has stopped on the first character of the third row, 14 characters
\* drawn and the rest left unread.
C16_ThirdRowClipped ==
    /\ pc = "render" /\ variant = "region" /\ msg = MsgLongLine3
    /\ pass.status = "clip"
    /\ pass.i = 18 /\ pass.i < Len(msg)
    /\ Len(pass.drawn) = 14
    /\ pass.drawn[14].y + 24 <= region.startY + region.maxH
    /\ pass.cursorY + 24 > region.startY + region.maxH


(***************************************************************************)
(* SpecTitle: one call of renderDualColorToOLED, over titles put together  *)
(* from the marker strings and fragments of them.                          *)
(***************************************************************************)
\* The largest number of pieces in a title.
MaxPieces == 3

TitlePieces == {TagScroll, TagScrollEnd, TagBlink, TagBlinkEnd,
                <<"<", "s", "c", "r">>, <<"o", "l", "l", ">">>, <<"T">>}

RECURSIVE Join(_)
Join(pieces) == IF pieces = <<>> THEN <<>> ELSE Head(pieces) \o Join(Tail(pieces))

PieceTitles == {Join(p) : p \in UNION {[1..k -> TitlePieces] : k \in 0..MaxPieces}}

InitTitle ==
    /\ InitEnv /\ InitNoPass /\ InitNoHex
    /\ gMode = MODE_TEXT
    /\ gCurrentText = BodyNormal
    /\ gTitleText \in PieceTitles
    /\ gDualColorMode = TRUE
    /\ gLargeTitleMode \in BOOLEAN
    /\ gBitmap = ZeroBitmap
    /\ gLastMessage = "none"
    /\ gUploadActive = FALSE
    /\ gUploadBytes = 0
    /\ gLastAnimUpdate = 0
    /\ \E ph \in Phases : gScrollOffset = ph.scrollOffset /\ gBlinkState = ph.blinkOn
    /\ pc = "title"

RenderDual ==
    /\ pc = "title"
    /\ LET r == renderDualColorToOLED(gTitleText, gCurrentText, gLargeTitleMode, CurPhase)
       IN  /\ pc' = IF r.returns THEN "titled" ELSE "hung"
           /\ display' = IF r.returns THEN r.shown ELSE display
    /\ UNCHANGED <<storeVars, uploadVars, animVars, now, upload, served, last,
                   renderVars, hexVars>>

NextTitle == RenderDual

SpecTitle == InitTitle /\ [][NextTitle]_vars

(***************************************************************************)
(* SpecClock: the animation clock from boot through a whole scroll cycle,  *)
(* with loop() run at least once every millisecond.                        *)
(***************************************************************************)
\* The time at which the clock is stopped: 115 ticks of 201 ms.
MaxClock == 23115

\* millis() moves on between two runs of loop() in which no tick is due.
ClockElapse ==
    /\ pc = "loop"
    /\ upload.status = "none"
    /\ now - gLastAnimUpdate <= ANIM_PERIOD
    /\ \E d \in {1, ANIM_PERIOD} :
          /\ now + d - gLastAnimUpdate <= ANIM_PERIOD + 1
          /\ now + d <= MaxClock
          /\ now' = now + d
    /\ UNCHANGED <<storeVars, uploadVars, animVars, upload, served, display, pc, last,
                   renderVars, hexVars>>

NextClock ==
    \/ Setup
    \/ ClockElapse
    \/ updateAnimations

SpecClock == Init /\ [][NextClock]_vars

(***************************************************************************)
(* SpecPhase: updates to a text that scrolls and blinks, under a clock     *)
(* that ticks as soon as the period has elapsed, until gScrollOffset has   *)
(* gone round.                                                             *)
(***************************************************************************)
TitleScrollBlink == TagScroll \o TagBlink \o <<"T">>

PhaseElapse ==
    /\ pc = "loop"
    /\ upload.status = "none"
    /\ now - gLastAnimUpdate <= ANIM_PERIOD
    /\ now + ANIM_PERIOD + 1 <= MaxClock
    /\ now' = now + ANIM_PERIOD + 1
    /\ UNCHANGED <<storeVars, uploadVars, animVars, upload, served, display, pc, last,
                   renderVars, hexVars>>

SubmitPhase == handleSubmit({<<>>}, {<<>>, TitleScrollBlink}, {MsgScrollBlink}, {<<>>})

NextPhase ==
    \/ Setup
    \/ PhaseElapse
    \/ updateAnimations
    \/ SubmitPhase

SpecPhase == Init /\ [][NextPhase]_vars

(***************************************************************************)
(* Properties of the title (SpecDual).                                     *)
(***************************************************************************)
\* The stored content is the title "<scroll>ALERT" over the body
\* "Normal body text", in dual mode with the large title.
AlertStored ==
    /\ pc = "loop" /\ gMode = MODE_TEXT
    /\ gDualColorMode /\ gLargeTitleMode
    /\ gTitleText = TitleAlert /\ gCurrentText = BodyNormal

\* The display shows the title "ALERT" at the given size, at
\* X = SCREEN_WIDTH - gScrollOffset and vertically centred in the title
\* region, over the body drawn from the top left of the body region.
AlertShownAt(size) ==
    /\ display.kind = "dual"
    /\ display.title = <<[text |-> <<"A", "L", "E", "R", "T">>,
                          x |-> SCREEN_WIDTH - gScrollOffset,
                          y |-> (YELLOW_HEIGHT - 8 * size) \div 2,
                          size |-> size]>>
    /\ Len(display.glyphs) = Len(BodyNormal)
    /\ \A k \in 1..Len(BodyNormal) :
          display.glyphs[k] = Glyph(BodyNormal[k], 6 * (k - 1), YELLOW_HEIGHT, 1, FALSE)

\* C17 (as the code has it): after a dual update with title "<scroll>ALERT",
\* body "Normal body text" and the large title set, the display shows the
\* title as "ALERT", scrolled to X = SCREEN_WIDTH - gScrollOffset, at text
\* size 2.
C17_AlertTitleLarge == AlertStored => AlertShownAt(2)

\* C17 (as stated): the title is shown at text size 1.
C17_AlertTitleSmall == AlertStored => AlertShownAt(1)

\* The update has been made and a tick has moved the title to the left.
C17_AlertScrolled ==
    /\ AlertStored /\ AlertShownAt(2)
    /\ gScrollOffset = SCROLL_STEP
    /\ display.title[1].x = SCREEN_WIDTH - SCROLL_STEP


(***************************************************************************)
(* Properties of the title (SpecTitle).                                    *)
(***************************************************************************)
\* The string pat occurs in the string s.
Occurs(pat, s) ==
    \E k \in 1..(Len(s) - Len(pat) + 1) : SubSeq(s, k, k + Len(pat) - 1) = pat

\* A dual render has been made and has printed the title.
TitlePrinted == pc = "titled" /\ display.kind = "dual" /\ Len(display.title) = 1

\* C18: a printed title has size 2 when largeTitle is set and 1 otherwise
\* (with YELLOW_HEIGHT = 16 no size is forced down, 16 not being strictly
\* greater than 16); its line height 8 * size is at most YELLOW_HEIGHT, it is
\* drawn at Y = (YELLOW_HEIGHT - lineHeight) / 2 >= 0, and its line ends
\* within the title region.
C18_TitleFits ==
    TitlePrinted
        => LET t == display.title[1]
               lineHeight == 8 * t.size
           IN  /\ t.size = (IF gLargeTitleMode THEN 2 ELSE 1)
               /\ lineHeight <= YELLOW_HEIGHT
               /\ t.y = (YELLOW_HEIGHT - lineHeight) \div 2
               /\ t.y >= 0
               /\ t.y + lineHeight <= YELLOW_HEIGHT

\* A large title has been printed: its line fills the title region exactly.
C18_LargeTitlePrinted ==
    /\ TitlePrinted /\ gLargeTitleMode
    /\ display.title[1].size = 2 /\ display.title[1].y = 0
    /\ Len(display.title[1].text) > 0

\* C19: the printed copy of the title contains none of the four marker
\* strings; it is printed at X = SCREEN_WIDTH - gScrollOffset when the
\* original title contains "<scroll>" and at X = 0 otherwise; and a non-empty
\* title is printed unless the original contains "<blink>" and blinkOn is
\* false.
C19_TitleStripped ==
    (pc = "titled" /\ display.kind = "dual")
        => /\ Len(display.title) = 1
                <=> (Len(gTitleText) > 0 /\ (~Occurs(TagBlink, gTitleText) \/ gBlinkState))
           /\ Len(display.title) = 1
                => /\ display.title[1].x = (IF Occurs(TagScroll, gTitleText)
                                            THEN SCREEN_WIDTH - gScrollOffset ELSE 0)
                   /\ ~Occurs(TagScroll, display.title[1].text)
                   /\ ~Occurs(TagScrollEnd, display.title[1].text)
                   /\ ~Occurs(TagBlink, display.title[1].text)
                   /\ ~Occurs(TagBlinkEnd, display.title[1].text)

\* The title "<scr<blink>oll>" has been printed as "<scroll>".
C19_MarkerPutTogether ==
    /\ TitlePrinted
    /\ gTitleText = <<"<", "s", "c", "r">> \o TagBlink \o <<"o", "l", "l", ">">>
    /\ display.title[1].text = TagScroll
    /\ display.title[1].x = 0


(***************************************************************************)
(* Properties of the animation clock (SpecClock).                          *)
(***************************************************************************)
\* C20: gScrollOffset and gBlinkState change only together; the step that
\* changes them sets gScrollOffset to (gScrollOffset + 2) mod 228, negates
\* gBlinkState, and is taken only when more than 200 ms have passed since
\* the tick before (since boot for the first one), the time of which it
\* records.  In every state 0 <= gScrollOffset < 228 and gScrollOffset is
\* even.
C20_ClockTick ==
    /\ [](gScrollOffset >= 0 /\ gScrollOffset < 228 /\ gScrollOffset % 2 = 0)
    /\ [][(gScrollOffset' # gScrollOffset \/ gBlinkState' # gBlinkState)
            => /\ gScrollOffset' = (gScrollOffset + 2) % 228
               /\ gBlinkState' = ~gBlinkState
               /\ now - gLastAnimUpdate > 200
               /\ gLastAnimUpdate' = now]_vars

\* The scroll offset has gone round: the 114th tick has brought it back to 0.
C20_ScrollWrapped ==
    /\ pc = "loop" /\ last.op = "tick"
    /\ gScrollOffset = 0 /\ ~gBlinkState
    /\ gLastAnimUpdate = 114 * 201


(***************************************************************************)
(* Properties of the handlers that answer without updating (SpecQuery).    *)
(***************************************************************************)
\* The Display State Store.
DisplayStore == <<gMode, gCurrentText, gTitleText, gDualColorMode, gLargeTitleMode, gBitmap>>

\* C21: a step that changes gMode, gCurrentText, gTitleText, gDualColorMode,
\* gLargeTitleMode or gBitmap is a step of handleSubmit or handleUpload;
\* setup, a tick, the root page, the state query and the raw bitmap export
\* leave all of them as they are, whatever they render; and gScrollOffset and
\* gBlinkState change in a tick only, so that no render call made by setup
\* or by an update changes them.
C21_StoreFrame ==
    [][/\ DisplayStore' # DisplayStore => last'.op \in {"submit", "upload"}
       /\ (last' # last /\ last'.op \in {"setup", "tick", "root", "state", "bitmap.bin"})
            => DisplayStore' = DisplayStore
       /\ <<gScrollOffset, gBlinkState>>' # <<gScrollOffset, gBlinkState>>
            => last'.op = "tick"
       /\ (last' # last /\ last'.op \in {"setup", "submit", "root", "state", "bitmap.bin"})
            => <<gScrollOffset, gBlinkState>>' = <<gScrollOffset, gBlinkState>>]_vars

\* The state query has been answered after an update and a tick that
\* rendered: the body names the stored text and title.
C21_StateQueried ==
    /\ last.op = "state"
    /\ gTitleText = TitleScroll /\ gCurrentText = MsgBlinkAB /\ gDualColorMode
    /\ gBlinkState /\ display.kind = "dual"
    /\ last.body = StateBody


(***************************************************************************)
(* Properties of the upload byte count (SpecUpload).                       *)
(***************************************************************************)
\* The step is handleUpload() at UPLOAD_FILE_START.
IsUploadStart == upload.status = "none" /\ upload'.status = "open"

\* The step is handleUpload() at UPLOAD_FILE_ABORTED.
IsUploadAborted == upload.status = "open" /\ upload'.status = "none"

\* C22: UPLOAD_FILE_START and UPLOAD_FILE_ABORTED set gUploadBytes to 0;
\* when handleSubmit returns gUploadBytes is 0 and gUploadActive is false;
\* between two requests gUploadBytes is therefore 0, and a bitmap update
\* without a file finds no uploaded byte: it answers neither with the file
\* nor with a wrong size.
C22_UploadCountReset ==
    /\ []((pc = "loop" /\ upload.status = "none") => (gUploadBytes = 0 /\ ~gUploadActive))
    /\ [][/\ IsUploadStart => gUploadBytes' = 0
          /\ IsUploadAborted => (gUploadBytes' = 0 /\ ~gUploadActive')
          /\ (IsSubmit /\ pc' = "loop") => (gUploadBytes' = 0 /\ ~gUploadActive')
          /\ (IsSubmit /\ upload.status = "none" /\ last'.bitmapMode)
               => /\ last'.uploaded = 0
                  /\ gLastMessage' \notin {"file", "wrong size"}
                  /\ (last'.hexText = <<>>)
                       => (gLastMessage' = "none" /\ gBitmap' = gBitmap)]_vars

\* The one-byte file of an earlier request has been received, and a later
\* bitmap update without file or hex text has been answered with no data.
C22_LaterSubmitWithoutFile ==
    /\ pc = "loop" /\ served = 2
    /\ last.op = "submit" /\ last.bitmapMode
    /\ last.fileLen = 0 /\ last.hexText = <<>>
    /\ gBitmap[1] = FileByte(File(1, 1), 0)
    /\ gLastMessage = "none"


(***************************************************************************)
(* Counts over a pass (SpecRender).                                        *)
(***************************************************************************)
\* The source holds no tag: no "<" with a ">" after it.
NoTags(m) == ~\E j \in 1..Len(m), k \in 1..Len(m) : j < k /\ m[j] = "<" /\ m[k] = ">"

\* The number of characters of the first n of m that are in the set S.
CountIn(m, n, S) == Cardinality({k \in 1..n : m[k] \in S})

\* C23: for a source without tags, as long as the pass has not been clipped,
\* the glyphs drawn are as many as the characters read other than line feeds
\* and carriage returns, and the lines begun below the first are as many as
\* the line feeds read.
C23_CountsMatch ==
    (pc = "render" /\ NoTags(msg) /\ pass.status \in {"run", "end"} /\ pass.i <= Len(msg))
        => /\ Len(pass.drawn) = pass.i - CountIn(msg, pass.i, {"\n", "\r"})
           /\ pass.cursorY - region.startY = 8 * CountIn(msg, pass.i, {"\n"})

\* The source "A<" holds one A and no tag, and the pass has drawn A twice.
C23_OpenBracketRedrawn ==
    /\ pc = "render" /\ variant = "region" /\ msg = <<"A", "<">>
    /\ NoTags(msg)
    /\ Len(pass.drawn) = 2
    /\ pass.drawn[1].ch = "A" /\ pass.drawn[2].ch = "A"


\* The glyphs the step has added to the ones drawn.
NewGlyphs == SubSeq(pass'.drawn, Len(pass.drawn) + 1, Len(pass'.drawn))

\* C24: a character that is drawn is written once at (X, Y) in plain mode,
\* twice, at (X, Y) and (X + 1, Y), in bold mode without italic, and
\* textSize + 1 times, at (X + k, Y + 2 * (textSize - k)) for k = 0..textSize,
\* in italic mode, with or without bold; Y is cursorY after the wrap step,
\* every copy has the character, size and colours of the pass, and cursorX
\* ends 6 * textSize right of where the wrap step left it.
C24_GlyphCopies ==
    [][(ReachesWrap /\ pass'.status = "run")
        => LET n == Len(NewGlyphs)
               X == NewGlyphs[1].x
               Y == pass'.cursorY
               size == pass.textSize
               wrapped == pass.cursorX + 6 * size > region.startX + region.maxW
           IN  /\ pass'.cursorX
                    = (IF wrapped THEN region.startX ELSE pass.cursorX) + 6 * size
               /\ n > 0
                    => /\ \A k \in 1..n :
                             /\ NewGlyphs[k].ch = msg[pass.i + 1]
                             /\ NewGlyphs[k].size = size
                             /\ NewGlyphs[k].inv = pass.invertedMode
                       /\ IF pass.italicMode
                          THEN /\ n = size + 1
                               /\ \A k \in 0..size :
                                     /\ NewGlyphs[k + 1].x = X + k
                                     /\ NewGlyphs[k + 1].y = Y + 2 * (size - k)
                          ELSE IF pass.boldMode
                          THEN /\ n = 2
                               /\ NewGlyphs[1].y = Y
                               /\ NewGlyphs[2].x = X + 1 /\ NewGlyphs[2].y = Y
                          ELSE n = 1 /\ NewGlyphs[1].y = Y]_vars

\* "<s2><b>Hi</b>" has been rendered: H and i twice each at size 2, 12
\* pixels apart.
C24_BoldHiDrawn ==
    /\ pc = "render" /\ msg = MsgBoldHi /\ pass.status = "end"
    /\ pass.drawn = <<Glyph("H", region.startX, region.startY, 2, FALSE),
                      Glyph("H", region.startX + 1, region.startY, 2, FALSE),
                      Glyph("i", region.startX + 12, region.startY, 2, FALSE),
                      Glyph("i", region.startX + 13, region.startY, 2, FALSE)>>
    /\ pass.cursorX = region.startX + 24


(***************************************************************************)
(* Properties of the chunk copies (SpecUpload).                            *)
(***************************************************************************)
\* The step is handleUpload() at UPLOAD_FILE_WRITE.
IsUploadWrite ==
    upload.status = "open" /\ upload'.status = "open" /\ upload'.sent > upload.sent

\* C25: gUploadBytes stays within 0..1024 and gBitmap keeps its 1024 bytes;
\* a chunk copy raises gUploadBytes by canWrite >= 0, changes no byte of
\* gBitmap outside the indices gUploadBytes .. gUploadBytes + canWrite - 1,
\* all of them below 1024, and puts the leading canWrite bytes of the chunk
\* there.
C25_CopyInBounds ==
    /\ [](gUploadBytes >= 0 /\ gUploadBytes <= 1024 /\ DOMAIN gBitmap = 1..1024)
    /\ [][IsUploadWrite
            => LET canWrite == gUploadBytes' - gUploadBytes
               IN  /\ canWrite >= 0
                   /\ canWrite <= upload'.sent - upload.sent
                   /\ gUploadBytes + canWrite <= 1024
                   /\ \A k \in 0..1023 :
                         IF k >= gUploadBytes /\ k < gUploadBytes + canWrite
                         THEN gBitmap'[k + 1]
                                = FileByte(upload.file, upload.sent + (k - gUploadBytes))
                         ELSE gBitmap'[k + 1] = gBitmap[k + 1]]_vars

\* A file of 1500 bytes has been received in chunks of 600: the third chunk
\* was cut to the 1024th byte.
C25_LastChunkCut ==
    /\ upload.status = "open" /\ upload.file.len = 1500 /\ upload.sent = 1500
    /\ gUploadBytes = 1024
    /\ gBitmap[1024] = FileByte(upload.file, 1023)


(***************************************************************************)
(* The stored bitmap across a text update (SpecUpload).                    *)
(***************************************************************************)
\* C26: after a request whose mode is not "bitmap", with or without a file
\* part, gBitmap is what it was before the request was received.
C26_TextKeepsBitmap ==
    (last.op = "submit" /\ ~last.bitmapMode) => gBitmap = last.before

\* A text update with a file part of one byte has been answered: the text is
\* stored and shown, and the first byte of gBitmap is the byte of the file.
C26_TextWithFileStored ==
    /\ last.op = "submit" /\ ~last.bitmapMode /\ last.fileLen = 1
    /\ gMode = MODE_TEXT /\ gCurrentText = last.text
    /\ gBitmap[1] = FileByte(File(1, 1), 0)
    /\ last.before[1] # gBitmap[1]
    /\ \A k \in 2..BITMAP_SIZE : gBitmap[k] = last.before[k]


(***************************************************************************)
(* The display against the stored bitmap (SpecUpload).                     *)
(***************************************************************************)
\* C27: whenever gMode is MODE_BITMAP, the image on the display is the image
\* of the current gBitmap.
C27_DisplayShowsBitmap ==
    gMode = MODE_BITMAP => display = renderBitmapToOLED(gBitmap)

\* A file of 1024 bytes was shown; a later bitmap request with a file of one
\* byte was refused as of the wrong size, yet its byte is in gBitmap while
\* the display keeps the image of the first file.
C27_RefusedFileStored ==
    /\ gMode = MODE_BITMAP
    /\ last.op = "submit" /\ last.bitmapMode /\ last.fileLen = 1
    /\ gLastMessage = "wrong size"
    /\ gBitmap[1] = FileByte(File(1, 1), 0)
    /\ display = renderBitmapToOLED(last.before)
    /\ display # renderBitmapToOLED(gBitmap)


(***************************************************************************)
(* Ticks over bodies the renderer animates (SpecTags).                     *)
(***************************************************************************)
\* The region the stored body is rendered in.
StoredBodyRegion == IF gDualColorMode THEN BodyRegion ELSE FullRegion

\* Some iteration of the render pass over the body m in region R under phase
\* ph begins or ends with scrollMode or blinkMode set.
SwitchesAnimationOn(m, R, ph) ==
    \E n \in 0..(2 * Len(m) + 1) :
       LET st == RunPass(m, R, ph, PassInit(R), n)
       IN  st.scrollMode \/ st.blinkMode

\* C28: a tick in text mode over a stored body whose render pass sets
\* scrollMode or blinkMode renders again.
C28_AnimatedBodyRedrawn ==
    [][(IsTick /\ gMode = MODE_TEXT
          /\ SwitchesAnimationOn(gCurrentText, StoredBodyRegion,
                                 Phase(gScrollOffset', gBlinkState')))
         => last'.rendered]_vars

\* The body "<SCROLL>A" was drawn in scroll mode at offset 0; a tick has moved
\* the offset to 2 without a render, and the display still shows offset 0.
C28_UpperScrollStale ==
    /\ gMode = MODE_TEXT /\ ~gDualColorMode /\ gCurrentText = MsgUpperScroll
    /\ last.op = "tick" /\ ~last.rendered
    /\ gScrollOffset = SCROLL_STEP
    /\ SwitchesAnimationOn(MsgUpperScroll, FullRegion, Phase(gScrollOffset, gBlinkState))
    /\ display = renderTextToOLED(MsgUpperScroll, Phase(0, FALSE)).shown
    /\ display # renderTextToOLED(MsgUpperScroll, Phase(gScrollOffset, gBlinkState)).shown


(***************************************************************************)
(* The single-region path against the older renderer (SpecRender).         *)
(***************************************************************************)
\* The source spells neither "scroll" nor "blink", in whatever case.
NoAnimationWord(m) ==
    /\ IndexOf(ToLowerCase(m), <<"s", "c", "r", "o", "l", "l">>) < 0
    /\ IndexOf(ToLowerCase(m), <<"b", "l", "i", "n", "k">>) < 0

\* C29: once the older renderTextToOLED has returned from a body without a
\* scroll or blink tag, the glyphs it has drawn are, one by one, those
\* renderTextAtPosition(msg, 0, 0, 128, 64) draws for the same body.
C29_SameGlyphsAsLegacy ==
    (pc = "render" /\ variant = "legacy" /\ pass.status \in {"end", "clip"}
       /\ NoAnimationWord(msg))
        => pass.drawn = renderTextAtPosition(msg, FullRegion, CurPhase).drawn

\* The older renderer has drawn the line of A's: its 22nd glyph opens the
\* second row at x = 0, where the region renderer puts it at x = 126.
C29_WrappedGlyphMoved ==
    /\ pc = "render" /\ variant = "legacy" /\ msg = MsgLongLine
    /\ pass.status = "end"
    /\ NoAnimationWord(msg)
    /\ pass.drawn[22] = Glyph("A", 0, 8, 1, FALSE)
    /\ LET new == renderTextAtPosition(msg, FullRegion, CurPhase)
       IN  /\ new.returns
           /\ Len(new.drawn) = Len(pass.drawn)
           /\ new.drawn[22] = Glyph("A", 126, 8, 1, FALSE)
           /\ \A k \in (1..Len(pass.drawn)) \ {22} : new.drawn[k] = pass.drawn[k]


(***************************************************************************)
(* Scroll offset and blink phase together (SpecPhase).                     *)
(***************************************************************************)
\* Where the single glyph of MsgScrollBlink goes at scroll offset o: left of
\* the region start by o, or brought round from the right once it has left.
ScrolledX(R, o) == IF R.startX - o < -6 THEN R.startX - o + R.maxW + 100 ELSE R.startX - o

\* C30: in every state gBlinkState is true exactly when gScrollOffset / 2 is
\* odd; while the stored body is "<scroll><blink>A", what the display shows
\* of it was rendered under the current offset and phase, it shows the glyph
\* only when gScrollOffset is 2 modulo 4, shifted by that offset, and a
\* title that scrolls and blinks is printed exactly when gScrollOffset is 2
\* modulo 4, at X = 128 - gScrollOffset.
C30_PhaseLocked ==
    /\ gBlinkState <=> ((gScrollOffset \div 2) % 2 = 1)
    /\ (pc = "loop" /\ gMode = MODE_TEXT /\ gCurrentText = MsgScrollBlink)
         => /\ display = RenderContent(gTitleText, gCurrentText, gDualColorMode,
                                      gLargeTitleMode, CurPhase).shown
            /\ gScrollOffset % 4 # 2 => display.glyphs = <<>>
            /\ display.glyphs # <<>>
                 => /\ gScrollOffset % 4 = 2
                    /\ Len(display.glyphs) = 1
                    /\ display.glyphs[1].x = ScrolledX(StoredBodyRegion, gScrollOffset)
                    /\ display.glyphs[1].x % 4 = 2
            /\ (display.kind = "dual" /\ gTitleText = TitleScrollBlink)
                 => /\ (display.title # <<>>) <=> (gScrollOffset % 4 = 2)
                    /\ display.title # <<>>
                         => display.title[1].x = SCREEN_WIDTH - gScrollOffset

\* The offset has gone round from 226 to 0 and on to 2: the 115th tick has
\* drawn the text that scrolls and blinks two pixels left of the panel.
C30_DrawnAfterWrap ==
    /\ pc = "loop" /\ last.op = "tick" /\ last.rendered
    /\ gLastAnimUpdate = 115 * 201
    /\ gScrollOffset = 2 /\ gBlinkState
    /\ gCurrentText = MsgScrollBlink /\ ~gDualColorMode
    /\ display.glyphs = <<Glyph("A", -2, 0, 1, FALSE)>>

====
